---- MODULE Spec2Model ----
(***************************************************************************)
(* xPool: candidate sourcing, identity resolution, recruiter-action        *)
(* learning and scoring.  The relational store (jobs, candidates,          *)
(* job_candidates, recruiter_actions, role_success_patterns) is the shared *)
(* state; Celery sourcing tasks and HTTP handlers are the processes.       *)
(***************************************************************************)
EXTENDS Integers, Sequences, FiniteSets, Bags, TLC

\* ------------------------------------------------------------------ bounds
MaxItems == 2       \* raw profiles one search hands to a run
MaxResults == 2     \* the max_results argument of a sourcing task

\* ----------------------------------------------------------------- strings
\* Text that the code searches or splits is a tuple of characters; <<>> is
\* the absent (NULL / None / "") value of such a column.
GitHubPrefix ==
    <<"h","t","t","p","s",":","/","/","g","i","t","h","u","b",".","c","o","m","/">>

\* SQL LIKE '%t%' (Candidate.github_url.contains): NULL never matches
Contains(s, t) ==
    /\ s # <<>>
    /\ \E i \in 0..(Len(s) - Len(t)) : SubSeq(s, i + 1, i + Len(t)) = t

UpperToLower ==
    ("A" :> "a") @@ ("B" :> "b") @@ ("C" :> "c") @@ ("D" :> "d") @@ ("E" :> "e") @@ ("F" :> "f")
    @@ ("G" :> "g") @@ ("H" :> "h") @@ ("I" :> "i") @@ ("J" :> "j") @@ ("K" :> "k") @@ ("L" :> "l")
    @@ ("M" :> "m") @@ ("N" :> "n") @@ ("O" :> "o") @@ ("P" :> "p") @@ ("Q" :> "q") @@ ("R" :> "r")
    @@ ("S" :> "s") @@ ("T" :> "t") @@ ("U" :> "u") @@ ("V" :> "v") @@ ("W" :> "w") @@ ("X" :> "x")
    @@ ("Y" :> "y") @@ ("Z" :> "z")

\* str.lower()
Lower(s) ==
    [i \in 1..Len(s) |->
        IF s[i] \in DOMAIN UpperToLower THEN UpperToLower[s[i]] ELSE s[i]]

\* Python's kw in text
In(kw, text) ==
    \E i \in 0..(Len(text) - Len(kw)) : \A k \in 1..Len(kw) : text[i + k] = kw[k]

\* str.strip() of text whose only whitespace is the space
RECURSIVE LStrip(_)
LStrip(s) == IF s # <<>> /\ s[1] = " " THEN LStrip(Tail(s)) ELSE s

RECURSIVE RStrip(_)
RStrip(s) ==
    IF s # <<>> /\ s[Len(s)] = " " THEN RStrip(SubSeq(s, 1, Len(s) - 1)) ELSE s

Strip(s) == LStrip(RStrip(s))

StartsWith(s, t) == Len(t) <= Len(s) /\ SubSeq(s, 1, Len(t)) = t

\* s.replace(t, ""): every occurrence of t, from the left, taken out
RECURSIVE Remove(_, _)
Remove(s, t) ==
    IF s = <<>> THEN <<>>
    ELSE IF StartsWith(s, t) THEN Remove(SubSeq(s, Len(t) + 1, Len(s)), t)
    ELSE <<s[1]>> \o Remove(Tail(s), t)

\* "_".join(s.split()) of a stripped s
RECURSIVE SnakeCase(_)
SnakeCase(s) ==
    IF s = <<>> THEN <<>>
    ELSE IF s[1] = " " THEN <<"_">> \o SnakeCase(LStrip(s))
    ELSE <<s[1]>> \o SnakeCase(Tail(s))

\* the Python string of a tuple of characters
RECURSIVE Str(_)
Str(s) == IF s = <<>> THEN "" ELSE s[1] \o Str(Tail(s))

Digits == {"0", "1", "2", "3", "4", "5", "6", "7", "8", "9"}

DigitValue ==
    ("0" :> 0) @@ ("1" :> 1) @@ ("2" :> 2) @@ ("3" :> 3) @@ ("4" :> 4)
    @@ ("5" :> 5) @@ ("6" :> 6) @@ ("7" :> 7) @@ ("8" :> 8) @@ ("9" :> 9)

\* the digits s starts with
RECURSIVE LeadingDigits(_)
LeadingDigits(s) ==
    IF s = <<>> \/ s[1] \notin Digits THEN <<>>
    ELSE <<s[1]>> \o LeadingDigits(Tail(s))

\* re.search(r'\d+', s).group(), <<>> when nothing matches
RECURSIVE FirstDigitRun(_)
FirstDigitRun(s) ==
    IF s = <<>> THEN <<>>
    ELSE IF s[1] \in Digits THEN LeadingDigits(s)
    ELSE FirstDigitRun(Tail(s))

\* float() of a run of digits
RECURSIVE ToNumber(_)
ToNumber(digits) ==
    IF digits = <<>> THEN 0
    ELSE 10 * ToNumber(SubSeq(digits, 1, Len(digits) - 1))
         + DigitValue[digits[Len(digits)]]

RECURSIVE RStripSlash(_)
RStripSlash(s) ==
    IF s # <<>> /\ s[Len(s)] = "/" THEN RStripSlash(SubSeq(s, 1, Len(s) - 1)) ELSE s

RECURSIVE LastSegment(_)
LastSegment(s) ==
    IF s = <<>> THEN <<>>
    ELSE IF s[Len(s)] = "/" THEN <<>>
    ELSE LastSegment(SubSeq(s, 1, Len(s) - 1)) \o <<s[Len(s)]>>

\* github_url.rstrip("/").split("/")[-1], "" for a missing url
_extract_github_username(github_url) ==
    IF github_url = <<>> THEN <<>> ELSE LastSegment(RStripSlash(github_url))

\* ------------------------------------------------- the two source channels
NoId == "none"

\* X accounts the acquisition collaborator can return.  bio_github is the
\* handle written as github.com/<handle> in the bio (<<>>: no such text).
XUsers ==
    { [id |-> "x1", username |-> "ua", bio_github |-> <<"a","b">>],
      [id |-> "x2", username |-> "ub", bio_github |-> <<>>] }

NoUser == [id |-> NoId, username |-> NoId, bio_github |-> <<>>]

\* GitHub accounts: login, numeric id, and the twitter_username field
GitHubUsers ==
    { [login |-> <<"a","b">>, github_id |-> "1", twitter_username |-> NoId],
      [login |-> <<"c","d">>, github_id |-> "2", twitter_username |-> "ub"] }

NoGh == [login |-> <<>>, github_id |-> NoId, twitter_username |-> NoId]

\* x_api_client.get_user_by_username: the account, or None
XUserByUsername(name) ==
    IF \E u \in XUsers : u.username = name
    THEN CHOOSE u \in XUsers : u.username = name
    ELSE NoUser

\* extract_urls_from_user: the first github.com/<handle> match of the bio
extract_github_url(user) ==
    IF user.bio_github = <<>> THEN <<>> ELSE GitHubPrefix \o user.bio_github

JobIds == {"j1", "j2"}
Runs == {"r1", "r2"}
Kinds == {"user_search", "tweet_search", "usernames", "github"}
XKinds == {"user_search", "tweet_search", "usernames"}

\* constraint names carried by an IntegrityError
UniqueViolation == "candidates_unique"
FkViolation == "job_candidates_job_id_fkey"
CandidateFkViolation == "job_candidates_candidate_id_fkey"

VARIABLES
    jobs,            \* ids of the rows of table jobs
    candidates,      \* table candidates: a set of rows
    job_candidates,  \* table job_candidates: a bag of rows (no unique key
                     \* besides the row's own uuid, which is left out)
    runs,            \* the sourcing tasks: position and locals of each
    recruiter_actions, \* table recruiter_actions, in insertion order
    patterns,        \* table role_success_patterns: one row per role type
    upd,             \* calls of update_pattern_from_action in flight
    rebuild,         \* the call of rebuild_patterns_from_history
    match_score,     \* column job_candidates.match_score where it is set
    evidence,        \* column job_candidates.evidence where it is set
    adjusted,        \* last call of calculate_memory_adjusted_score
    quick,           \* last call of quick_dev_score: its inputs and result
    task,            \* one sourcing task step by step: stages, calls, counts
    grok,            \* last answer of the Grok collaborator to a scoring call
    normalized       \* a job title and the role type computed from it

vars == <<jobs, candidates, job_candidates, runs, recruiter_actions, patterns,
          upd, rebuild, match_score, evidence, adjusted, quick, task, grok, normalized>>

memory == <<recruiter_actions, patterns, upd, rebuild>>
scoring == <<match_score, evidence, adjusted, quick, task, grok, normalized>>

\* ------------------------------------------------------------ store reads
\* Candidate.id is a fresh uuid; the row's two channel ids name it here
\* (no two rows of the table can agree on both: see UniqueConflict)
CandidateId(x_user_id, github_id) == <<x_user_id, github_id>>

NoCandidate == CandidateId(NoId, NoId)

JobCandidate(job_id, candidate_id) ==
    [job_id |-> job_id, candidate_id |-> candidate_id]

\* the link check left out: every occurrence of an identity links again
LinkedNeverChecked(job_id, candidate_id) == FALSE

\* any(jc.job_id == job_id for jc in existing.jobs)
Linked(job_id, candidate_id) ==
    BagIn(JobCandidate(job_id, candidate_id), job_candidates)

\* db.query(Candidate).filter(Candidate.x_user_id == user_id)
ExistingByXId(user_id) ==
    {c \in candidates : c.x_user_id = user_id}

\* filter((github_url == gh_url) | (github_username == gh_username if gh_username else False))
GithubMatch(gh_url, gh_username) ==
    {c \in candidates :
        \/ c.github_url = gh_url
        \/ (gh_username # <<>> /\ c.github_username = gh_username)}

\* filter(Candidate.github_url.contains(username))
ExistingByGithubUrl(username) ==
    {c \in candidates : Contains(c.github_url, username)}

\* filter((github_id == github_id) | (x_user_id == x_user_id if x_user_id else False))
ExistingByGithubOrXId(github_id, x_user_id) ==
    {c \in candidates :
        \/ c.github_id = github_id
        \/ (x_user_id # NoId /\ c.x_user_id = x_user_id)}

\* the Candidate row an X path builds from parse_user_to_candidate_data
XCandidate(kind, user) ==
    [id |-> CandidateId(user.id, NoId),
     x_user_id |-> user.id,
     x_username |-> user.username,
     github_id |-> NoId,
     github_username |->
        IF kind = "tweet_search"
        THEN _extract_github_username(extract_github_url(user))
        ELSE <<>>,
     github_url |-> extract_github_url(user)]

\* the Candidate row the GitHub path builds from the full developer profile
GhCandidate(gh, user) ==
    [id |-> CandidateId(user.id, gh.github_id),
     x_user_id |-> user.id,
     x_username |-> gh.twitter_username,
     github_id |-> gh.github_id,
     github_username |-> gh.login,
     github_url |-> GitHubPrefix \o gh.login]

\* a table candidates with no unique constraint
NoUniqueConflict(row) == FALSE

\* the unique constraints of table candidates (NULLs never collide)
UniqueConflict(row) ==
    \E c \in candidates :
        \/ (row.x_user_id # NoId /\ c.x_user_id = row.x_user_id)
        \/ (row.github_id # NoId /\ c.github_id = row.github_id)

\* -------------------------------------------------------------- the tasks
IdleRun(r) ==
    [r |-> r, pc |-> "idle", kind |-> "none", job_id |-> "none", left |-> 0,
     user |-> NoUser, gh |-> NoGh, existing |-> NoCandidate, counts |-> FALSE,
     added |-> 0, skipped |-> 0, seen |-> {}, error |-> "",
     linked |-> 0,     \* rows of job_candidates the run has committed
     enriched |-> 0]   \* calls of enrich_job_candidates_task.delay

\* ------------------------------------------------- rows of the pattern store
\* Job.title of the two jobs
JobTitle(job_id) ==
    IF job_id = "j1" THEN <<"S","e","n","i","o","r"," ","i","O","S"," ","E","n","g","i","n","e","e","r">>
    ELSE <<"B","a","c","k","e","n","d"," ","D","e","v","e","l","o","p","e","r">>

\* the seniority prefixes, in the order of the loop
seniority_prefixes ==
    << <<"s","e","n","i","o","r">>,
       <<"j","u","n","i","o","r">>,
       <<"l","e","a","d">>,
       <<"p","r","i","n","c","i","p","a","l">>,
       <<"s","t","a","f","f">>,
       <<"s","r",".">>,
       <<"j","r",".">> >>

\* role_mappings, in the order of the dict: keyword, role type
role_mappings ==
    << <<<<"i","o","s">>,
         <<"i","o","s","_","e","n","g","i","n","e","e","r">>>>,
       <<<<"s","w","i","f","t">>,
         <<"i","o","s","_","e","n","g","i","n","e","e","r">>>>,
       <<<<"a","n","d","r","o","i","d">>,
         <<"a","n","d","r","o","i","d","_","e","n","g","i","n","e","e","r">>>>,
       <<<<"k","o","t","l","i","n">>,
         <<"a","n","d","r","o","i","d","_","e","n","g","i","n","e","e","r">>>>,
       <<<<"f","r","o","n","t","e","n","d">>,
         <<"f","r","o","n","t","e","n","d","_","e","n","g","i","n","e","e","r">>>>,
       <<<<"f","r","o","n","t","-","e","n","d">>,
         <<"f","r","o","n","t","e","n","d","_","e","n","g","i","n","e","e","r">>>>,
       <<<<"r","e","a","c","t">>,
         <<"f","r","o","n","t","e","n","d","_","e","n","g","i","n","e","e","r">>>>,
       <<<<"b","a","c","k","e","n","d">>,
         <<"b","a","c","k","e","n","d","_","e","n","g","i","n","e","e","r">>>>,
       <<<<"b","a","c","k","-","e","n","d">>,
         <<"b","a","c","k","e","n","d","_","e","n","g","i","n","e","e","r">>>>,
       <<<<"f","u","l","l","s","t","a","c","k">>,
         <<"f","u","l","l","s","t","a","c","k","_","e","n","g","i","n","e","e","r">>>>,
       <<<<"f","u","l","l","-","s","t","a","c","k">>,
         <<"f","u","l","l","s","t","a","c","k","_","e","n","g","i","n","e","e","r">>>>,
       <<<<"f","u","l","l"," ","s","t","a","c","k">>,
         <<"f","u","l","l","s","t","a","c","k","_","e","n","g","i","n","e","e","r">>>>,
       <<<<"m","a","c","h","i","n","e"," ","l","e","a","r","n","i","n","g">>,
         <<"m","l","_","e","n","g","i","n","e","e","r">>>>,
       <<<<"m","l"," ">>,
         <<"m","l","_","e","n","g","i","n","e","e","r">>>>,
       <<<<"d","a","t","a"," ","s","c","i","e","n","t","i","s","t">>,
         <<"d","a","t","a","_","s","c","i","e","n","t","i","s","t">>>>,
       <<<<"d","a","t","a"," ","s","c","i","e","n","c","e">>,
         <<"d","a","t","a","_","s","c","i","e","n","t","i","s","t">>>>,
       <<<<"d","e","v","o","p","s">>,
         <<"d","e","v","o","p","s","_","e","n","g","i","n","e","e","r">>>>,
       <<<<"s","r","e">>,
         <<"s","r","e","_","e","n","g","i","n","e","e","r">>>>,
       <<<<"p","l","a","t","f","o","r","m">>,
         <<"p","l","a","t","f","o","r","m","_","e","n","g","i","n","e","e","r">>>>,
       <<<<"i","n","f","r","a","s","t","r","u","c","t","u","r","e">>,
         <<"i","n","f","r","a","_","e","n","g","i","n","e","e","r">>>>,
       <<<<"p","y","t","h","o","n">>,
         <<"p","y","t","h","o","n","_","e","n","g","i","n","e","e","r">>>>,
       <<<<"g","o","l","a","n","g">>,
         <<"g","o","_","e","n","g","i","n","e","e","r">>>>,
       <<<<"r","u","s","t">>,
         <<"r","u","s","t","_","e","n","g","i","n","e","e","r">>>> >>

MaxRoleLength == 50

general_engineer == <<"g","e","n","e","r","a","l","_","e","n","g","i","n","e","e","r">>

RECURSIVE WithoutPrefixes(_, _)
WithoutPrefixes(title, k) ==
    IF k > Len(seniority_prefixes) THEN title
    ELSE WithoutPrefixes(Strip(Remove(title, seniority_prefixes[k])), k + 1)

\* re.sub(r'[^a-z0-9\s]', '', title)
Cleaned(title) ==
    SelectSeq(title,
        LAMBDA ch : ch \in {UpperToLower[u] : u \in DOMAIN UpperToLower}
                              \cup Digits \cup {" "})

\* the first keyword of role_mappings found in the lowered title with the
\* seniority prefixes taken out; else the title cleaned and snake-cased
normalize_role_type(job_title) ==
    LET title == WithoutPrefixes(Strip(Lower(job_title)), 1)
        hits == {k \in DOMAIN role_mappings : In(role_mappings[k][1], title)}
        slug == SnakeCase(Strip(Cleaned(title)))
        cut == SubSeq(slug, 1, IF Len(slug) < MaxRoleLength THEN Len(slug)
                                ELSE MaxRoleLength)
    IN  IF hits # {}
        THEN role_mappings[CHOOSE k \in hits : \A h \in hits : k <= h][2]
        ELSE IF cut = <<>> THEN general_engineer ELSE cut

\* RoleSuccessPattern.role_type of each job
RoleTypeOf == [j \in JobIds |-> Str(normalize_role_type(JobTitle(j)))]

RoleTypes == {RoleTypeOf[j] : j \in JobIds}

\* no RoleSuccessPattern row (None)
NoPattern == [role_type |-> NoId]

\* a Float column that is NULL; averages are kept as exact fractions
NoAvg == [num |-> 0, den |-> 0]

Updaters == {"u1", "u2"}

IdleUpd ==
    [pc |-> "idle", job_id |-> NoId, candidate_id |-> NoId, action |-> NoId,
     pattern |-> NoPattern, result |-> NoId]

IdleRebuild == [pc |-> "idle", actions |-> <<>>, i |-> 0]

\* calculate_memory_adjusted_score has not been called
NoCall == [candidate_id |-> NoId]
NoQuick == [score |-> -1]

\* no sourcing task delivered yet
IdleTask ==
    [pc |-> "idle", kind |-> "none", job_id |-> NoId,
     exclude_influencers |-> TRUE, skip_classification |-> FALSE,
     stages |-> <<>>, queue |-> <<>>, seen |-> {}, user |-> NoUser, gh |-> NoGh,
     bio |-> <<>>, quick_score |-> -1, payload |-> [json |-> "none"],
     classification |-> [candidate_type |-> NoId],
     analyzed |-> 0, added |-> 0, skipped |-> 0,
     result |-> [error |-> NoId], error |-> "",
     max_results |-> MaxResults,
     progress |-> <<>>,     \* the percent of each record reported
     total_queries |-> 0, query_idx |-> 0, total_users |-> 0,
     revoked |-> FALSE]   \* the broker holds a revoke request for the task

\* chat_completion has not answered
NoAnswer == [call |-> NoId]

\* no title being normalised
NoTitle == [applied |-> 0]

\* nothing learned, nothing scored
MemoryInit ==
    /\ recruiter_actions = <<>>
    /\ patterns = [role \in RoleTypes |-> NoPattern]
    /\ upd = [u \in Updaters |-> IdleUpd]
    /\ rebuild = IdleRebuild

ScoringInit ==
    /\ match_score = <<>>
    /\ evidence = <<>>
    /\ adjusted = NoCall
    /\ quick = NoQuick
    /\ task = IdleTask
    /\ grok = NoAnswer
    /\ normalized = NoTitle

Init ==
    /\ jobs = JobIds
    /\ candidates = {}
    /\ job_candidates = EmptyBag
    /\ runs = [r \in Runs |-> IdleRun(r)]
    /\ MemoryInit
    /\ ScoringInit

Set(r, rec) == runs' = [runs EXCEPT ![r] = rec]

\* the for-loop moves on to the next raw profile
Continue(run) == [run EXCEPT !.pc = "loop", !.user = NoUser, !.gh = NoGh,
                             !.existing = NoCandidate, !.counts = FALSE]

Skip(run) == [Continue(run) EXCEPT !.skipped = run.skipped + 1]

\* the task ends: its locals are gone, the result (counts, error) stays
Return(run, pc, error) ==
    [Continue(run) EXCEPT !.pc = pc, !.error = error, !.left = 0, !.seen = {},
                          !.kind = "none", !.job_id = "none"]

\* a task is delivered to a worker: the job is looked up, the search runs
StartRun(r, kind, job_id, n) ==
    /\ runs[r].pc = "idle"
    /\ IF job_id \notin jobs
       THEN Set(r, Return(runs[r], "returned", "Job not found"))
       ELSE Set(r, [runs[r] EXCEPT !.pc = "loop", !.kind = kind,
                        !.job_id = job_id, !.left = n])
    /\ UNCHANGED <<jobs, candidates, job_candidates>>

\* the loop is over (no profile left, or max_results reached): the
\* enrichment is queued if candidates_added > 0, then the typed result
Finish(r) ==
    /\ runs[r].pc = "loop"
    /\ \/ runs[r].left = 0
       \/ runs[r].kind # "usernames" /\ runs[r].added >= MaxResults
    /\ Set(r, [Return(runs[r], "returned", "") EXCEPT
                  !.enriched = IF runs[r].added > 0 THEN 1 ELSE 0])
    /\ UNCHANGED <<jobs, candidates, job_candidates>>

\* "check if already in DB": the query by x_user_id and what follows it
\* up to the next store access (existing: link it unless linked; nothing
\* found: quick pre-filter and deep classifier decide on admission)
LookupX(run, admit) ==
    IF ExistingByXId(run.user.id) # {}
    THEN /\ admit
         /\ \E c \in ExistingByXId(run.user.id) :
              IF Linked(run.job_id, c.id)
              THEN runs' = [runs EXCEPT ![run.r] = Continue(run)]
              ELSE runs' = [runs EXCEPT ![run.r] =
                               [run EXCEPT !.pc = "link", !.existing = c.id]]
    ELSE IF run.kind = "usernames"
    THEN admit /\ runs' = [runs EXCEPT ![run.r] = [run EXCEPT !.pc = "insert"]]
    ELSE IF admit
    THEN runs' = [runs EXCEPT ![run.r] = [run EXCEPT !.pc = "dedupe"]]
    ELSE runs' = [runs EXCEPT ![run.r] = Skip(run)]

\* one iteration of an X path, from the top of the loop to its first write
\* or to the calls that precede its second store read
PickX(r, u, pass, admit) ==
    LET run == [runs[r] EXCEPT !.left = runs[r].left - 1, !.user = u] IN
    /\ runs[r].pc = "loop"
    /\ runs[r].kind \in XKinds
    /\ runs[r].left > 0
    /\ runs[r].kind = "usernames" \/ runs[r].added < MaxResults
    /\ CASE runs[r].kind = "tweet_search" ->
               IF u.id \in run.seen
               THEN pass /\ admit /\ Set(r, Continue(run))
               ELSE IF ~pass  \* quick_dev_score < 30
               THEN admit /\ Set(r, Skip([run EXCEPT !.seen = run.seen \cup {u.id}]))
               ELSE LookupX([run EXCEPT !.seen = run.seen \cup {u.id}], admit)
         [] runs[r].kind = "usernames" ->
               IF ~pass  \* get_user_by_username found nobody
               THEN admit /\ Set(r, Skip(run))
               ELSE LookupX(run, admit)
         [] OTHER -> pass /\ LookupX(run, admit)
    /\ UNCHANGED <<jobs, candidates, job_candidates>>

\* "dedupe by GitHub if present" of the user-search and tweet-search paths
Dedupe(r) ==
    LET run == runs[r]
        gh_url == extract_github_url(run.user)
        gh_username == _extract_github_username(gh_url)
        found == IF gh_url # <<>> \/ gh_username # <<>>
                 THEN GithubMatch(gh_url, gh_username) ELSE {}
    IN
    /\ run.pc = "dedupe"
    /\ IF found # {}
       THEN \E c \in found :
              IF Linked(run.job_id, c.id)
              THEN Set(r, Continue(run))
              ELSE Set(r, [run EXCEPT !.pc = "link", !.existing = c.id])
       ELSE Set(r, [run EXCEPT !.pc = "insert"])
    /\ UNCHANGED <<jobs, candidates, job_candidates>>

\* db.add(JobCandidate(existing)); db.commit()
Link(r) ==
    LET run == runs[r] IN
    /\ run.pc = "link"
    /\ IF run.job_id \notin jobs
       THEN /\ IF run.kind = "github"
               THEN Set(r, Return(run, "returned", "Job was deleted during sourcing"))
               ELSE Set(r, Return(run, "raised", FkViolation))
            /\ UNCHANGED job_candidates
       ELSE IF ~\E c \in candidates : c.id = run.existing
       THEN \* the candidate was deleted after the run had read it
            /\ Set(r, Return(run, "raised", CandidateFkViolation))
            /\ UNCHANGED job_candidates
       ELSE /\ job_candidates' =
                  job_candidates (+) SetToBag({JobCandidate(run.job_id, run.existing)})
            /\ Set(r, [Continue(run) EXCEPT
                          !.added = IF run.counts THEN run.added + 1 ELSE run.added,
                          !.linked = run.linked + 1])
    /\ UNCHANGED <<jobs, candidates>>

\* db.add(candidate); db.flush(); db.add(job_candidate); db.commit()
InsertX(r) ==
    LET run == runs[r]
        row == XCandidate(run.kind, run.user)
    IN
    /\ run.pc = "insert"
    /\ run.kind \in XKinds
    /\ IF UniqueConflict(row)
       THEN /\ Set(r, Return(run, "raised", UniqueViolation))
            /\ UNCHANGED <<candidates, job_candidates>>
       ELSE IF run.job_id \notin jobs
       THEN /\ Set(r, Return(run, "raised", FkViolation))
            /\ UNCHANGED <<candidates, job_candidates>>
       ELSE /\ candidates' = candidates \cup {row}
            /\ job_candidates' =
                  job_candidates (+) SetToBag({JobCandidate(run.job_id, row.id)})
            /\ Set(r, [Continue(run) EXCEPT !.added = run.added + 1,
                                            !.linked = run.linked + 1])
    /\ UNCHANGED jobs

\* one iteration of the GitHub path up to its second store read: "already
\* in DB by github username", then full profile, dev score, X profile
PickGh(r, g, admit, x_found) ==
    LET run == [runs[r] EXCEPT !.left = runs[r].left - 1, !.gh = g]
        found == ExistingByGithubUrl(g.login)
        x_user == IF x_found THEN XUserByUsername(g.twitter_username)
                  ELSE NoUser
    IN
    /\ runs[r].pc = "loop"
    /\ runs[r].kind = "github"
    /\ runs[r].left > 0 /\ runs[r].added < MaxResults
    /\ IF found # {}
       THEN /\ admit /\ x_found
            /\ \E c \in found :
                 IF Linked(run.job_id, c.id)
                 THEN Set(r, Continue(run))
                 ELSE Set(r, [run EXCEPT !.pc = "link", !.existing = c.id])
       ELSE IF ~admit
       THEN x_found /\ Set(r, Skip(run))
       ELSE Set(r, [run EXCEPT !.pc = "gh_lookup2", !.user = x_user])
    /\ UNCHANGED <<jobs, candidates, job_candidates>>

\* "Check if already in DB by GitHub ID or X ID"
GhLookup2(r) ==
    LET run == runs[r]
        found == ExistingByGithubOrXId(run.gh.github_id, run.user.id)
    IN
    /\ run.pc = "gh_lookup2"
    /\ IF found # {}
       THEN \E c \in found :
              IF Linked(run.job_id, c.id)
              THEN Set(r, Continue(run))
              ELSE Set(r, [run EXCEPT !.pc = "link", !.existing = c.id,
                                      !.counts = TRUE])
       ELSE Set(r, [run EXCEPT !.pc = "insert"])
    /\ UNCHANGED <<jobs, candidates, job_candidates>>

\* db.add(candidate); db.flush(); job_exists check; link; db.commit()
InsertGh(r) ==
    LET run == runs[r]
        row == GhCandidate(run.gh, run.user)
    IN
    /\ run.pc = "insert"
    /\ run.kind = "github"
    /\ IF UniqueConflict(row)
       THEN /\ Set(r, Return(run, "raised", UniqueViolation))
            /\ UNCHANGED <<candidates, job_candidates>>
       ELSE IF run.job_id \notin jobs
       THEN /\ Set(r, Return(run, "returned", "Job was deleted during sourcing"))
            /\ UNCHANGED <<candidates, job_candidates>>
       ELSE /\ candidates' = candidates \cup {row}
            /\ job_candidates' =
                  job_candidates (+) SetToBag({JobCandidate(run.job_id, row.id)})
            /\ Set(r, [Continue(run) EXCEPT !.added = run.added + 1,
                                            !.linked = run.linked + 1])
    /\ UNCHANGED jobs

\* a relationship Job.candidates without the delete cascade
DeleteJobRowOnly(job_id) ==
    /\ job_id \in jobs
    /\ jobs' = jobs \ {job_id}
    /\ UNCHANGED <<candidates, job_candidates, runs, memory, scoring>>

\* DELETE /jobs/{job_id}: the ORM cascade removes the job's links with it
delete_job(job_id) ==
    /\ job_id \in jobs
    /\ jobs' = jobs \ {job_id}
    /\ job_candidates' =
         [jc \in {x \in BagToSet(job_candidates) : x.job_id # job_id} |->
             job_candidates[jc]]
    /\ recruiter_actions' =
         SelectSeq(recruiter_actions, LAMBDA a : a.job_id # job_id)
    /\ match_score' =
         [jc \in {x \in DOMAIN match_score : x.job_id # job_id} |->
             match_score[jc]]
    /\ evidence' =
         [jc \in {x \in DOMAIN evidence : x.job_id # job_id} |-> evidence[jc]]
    /\ UNCHANGED <<candidates, runs, patterns, upd, rebuild, adjusted, quick,
                   task, grok, normalized>>

\* POST /jobs/{job_id}/candidates/{candidate_id}
add_candidate_to_job(job_id, candidate_id) ==
    /\ job_id \in jobs
    /\ \E c \in candidates : c.id = candidate_id
    /\ ~Linked(job_id, candidate_id)
    /\ job_candidates' = job_candidates (+) SetToBag({JobCandidate(job_id, candidate_id)})
    /\ UNCHANGED <<jobs, candidates, runs, memory, scoring>>

RunStep(r) ==
    /\ \/ \E k \in Kinds, j \in JobIds, n \in 1..MaxItems : StartRun(r, k, j, n)
       \/ Finish(r)
       \/ \E u \in XUsers, pass \in BOOLEAN, admit \in BOOLEAN : PickX(r, u, pass, admit)
       \/ Dedupe(r)
       \/ Link(r)
       \/ InsertX(r)
       \/ \E g \in GitHubUsers, admit \in BOOLEAN, x_found \in BOOLEAN :
             PickGh(r, g, admit, x_found)
       \/ GhLookup2(r)
       \/ InsertGh(r)
    /\ UNCHANGED <<memory, scoring>>

Next ==
    \/ \E r \in Runs : RunStep(r)
    \/ \E j \in JobIds : delete_job(j)
    \/ \E j \in JobIds, c \in candidates : add_candidate_to_job(j, c.id)

Spec == Init /\ [][Next]_vars

\* ---------------------------------------------- runs one after the other
Active(r) == runs[r].pc \notin {"idle", "returned", "raised"}

\* a task starts while no other sourcing task is in flight
SeqStartRun(r, kind, job_id, n) ==
    /\ \A q \in Runs \ {r} : ~Active(q)
    /\ StartRun(r, kind, job_id, n)

SeqRunStep(r) ==
    /\ \/ \E k \in Kinds, j \in JobIds, n \in 1..MaxItems : SeqStartRun(r, k, j, n)
       \/ Finish(r)
       \/ \E u \in XUsers, pass \in BOOLEAN, admit \in BOOLEAN : PickX(r, u, pass, admit)
       \/ Dedupe(r)
       \/ Link(r)
       \/ InsertX(r)
       \/ \E g \in GitHubUsers, admit \in BOOLEAN, x_found \in BOOLEAN :
             PickGh(r, g, admit, x_found)
       \/ GhLookup2(r)
       \/ InsertGh(r)
    /\ UNCHANGED <<memory, scoring>>

SeqNext ==
    \/ \E r \in Runs : SeqRunStep(r)
    \/ \E j \in JobIds : delete_job(j)

SeqSpec == Init /\ [][SeqNext]_vars

\* ------------------------------------------------------------------ claims
UniqueXUserId ==
    \A c1, c2 \in candidates :
        c1 # c2 /\ c1.x_user_id # NoId => c1.x_user_id # c2.x_user_id

UniqueGithubId ==
    \A c1, c2 \in candidates :
        c1 # c2 /\ c1.github_id # NoId => c1.github_id # c2.github_id

NoDuplicateLink ==
    \A jc \in BagToSet(job_candidates) : CopiesIn(jc, job_candidates) = 1

\* C1: over any sequence of sourcing runs no channel-native identifier (X
\* user id, GitHub id) is held by two Candidate rows, and a repeated
\* occurrence of an identity adds at most one link to the run's job: none
\* when its candidate is already linked to that job.
C1_DedupIdempotence ==
    /\ UniqueXUserId
    /\ UniqueGithubId
    /\ NoDuplicateLink

\* an identity met again by a run of the other job: one row, a link per job
C1_Witness ==
    \E c \in candidates : Linked("j1", c.id) /\ Linked("j2", c.id)

\* the rows of table candidates that stand for the person behind X account
\* u / GitHub account g
RowsOfX(u) == {c \in candidates : c.x_user_id = u.id}
RowsOfGh(g) == {c \in candidates : c.github_id = g.github_id}

\* C2: a person sourced once as the X profile whose bio carries GitHub
\* handle h and once as the GitHub profile with login h is one Candidate
\* row, linked once to the job.
C2_OneCandidatePerPerson ==
    \A u \in XUsers, g \in GitHubUsers :
        u.bio_github # <<>> /\ u.bio_github = g.login =>
            /\ Cardinality(RowsOfX(u) \cup RowsOfGh(g)) <= 1
            /\ \A j \in JobIds :
                 Cardinality({c \in RowsOfX(u) \cup RowsOfGh(g) : Linked(j, c.id)}) <= 1

\* C3: a run that loses the unique-constraint race on a new identity
\* fetches the existing row and goes on; it never fails on the violation.
C3_LoserFetchesExisting ==
    \A r \in Runs :
        ~(runs[r].pc = "raised" /\ runs[r].error = UniqueViolation)

\* C4: at most one JobCandidate row per (job, candidate) pair in every
\* reachable state, under any interleaving of the operations that link.
C4_OneLinkPerPair ==
    \A j \in JobIds, c \in candidates :
        CopiesIn(JobCandidate(j, c.id), job_candidates) <= 1

\* C5: a run whose job was deleted under it ends with an error result that
\* carries its counts; the foreign-key failure never leaves the task as an
\* unhandled exception.
C5_DeletedJobEndsGracefully ==
    \A r \in Runs :
        ~(runs[r].pc = "raised" /\ runs[r].error = FkViolation)

\* ======================================================= the pattern store
\* services/memory.py: what recruiters' actions teach about a role type

\* numeric constants of the program
FullConfidenceActions == 50   \* confidence = min(1.0, total_actions / 50)
TrustThreshold == 10          \* confidence 0.2, counted in fiftieths
TopSkills == 20
TopLanguages == 10
TopSignals == 15
TopRejections == 10
TopTypes == 3
HighDevScore == 70
ManyRepos == 10
HighFollowers == 1000
LowCode == 5

MaxLog == 2        \* recruiter actions logged

\* an Integer column that is NULL, a missing number
NoNum == -1

Min(a, b) == IF a < b THEN a ELSE b
Max(a, b) == IF a > b THEN a ELSE b

\* tweet_analysis without the key github_profile
NoProfile ==
    [present |-> FALSE, developer_score |-> NoNum, languages |-> <<>>,
     top_repos |-> 0]

\* candidates as sourcing and enrichment left them: a developer found on
\* GitHub with an X account, an influencer found on X, and a GitHub-only
\* developer without followers
Profiles ==
    { [id |-> "c1", x_user_id |-> "x3", x_username |-> "uc",
       github_id |-> "3", github_username |-> <<"e">>,
       github_url |-> GitHubPrefix \o <<"e">>,
       skills_extracted |-> <<"swift", "swiftui", "uikit", "coreml", "python",
                              "combine", "xcode", "arkit", "metal", "objc",
                              "testing">>,
       candidate_type |-> "developer", followers_count |-> 120,
       github_repos_count |-> NoNum,
       github_profile |-> [present |-> TRUE, developer_score |-> 80,
                           languages |-> <<"swift", "python", "c", "ruby",
                                           "shell", "objc">>,
                           top_repos |-> 5],
       x_classification |-> [is_actively_coding |-> TRUE, ships |-> TRUE]],
      [id |-> "c2", x_user_id |-> "x4", x_username |-> "ud",
       github_id |-> NoId, github_username |-> <<>>, github_url |-> <<>>,
       skills_extracted |-> <<"swift">>,
       candidate_type |-> "influencer", followers_count |-> 5000,
       github_repos_count |-> NoNum,
       github_profile |-> NoProfile,
       x_classification |-> [is_actively_coding |-> FALSE, ships |-> FALSE]],
      [id |-> "c3", x_user_id |-> NoId, x_username |-> NoId,
       github_id |-> "5", github_username |-> <<"f">>,
       github_url |-> GitHubPrefix \o <<"f">>,
       skills_extracted |-> <<"go", "docker", "kubernetes", "postgres", "grpc",
                              "redis", "kafka", "aws", "terraform", "linux",
                              "swift">>,
       candidate_type |-> "developer", followers_count |-> 0,
       github_repos_count |-> 12,
       github_profile |-> [present |-> TRUE, developer_score |-> 0,
                           languages |-> <<"go", "rust", "java", "swift",
                                           "sql", "lua">>,
                           top_repos |-> 3],
       x_classification |-> [is_actively_coding |-> FALSE, ships |-> FALSE]] }

ProfileIds == {c.id : c \in Profiles}

ActionTypes == {"view", "shortlist", "reject", "hire"}

RecruiterAction(job_id, candidate_id, action) ==
    [job_id |-> job_id, candidate_id |-> candidate_id, action |-> action]

\* truthiness of a number: neither None nor 0
Truthy(x) == x # NoNum /\ x # 0

extract_candidate_signals(candidate) ==
    LET gp == candidate.github_profile
        dev_score == IF gp.present THEN gp.developer_score ELSE NoNum
        repo_count ==
            IF gp.present /\ ~Truthy(candidate.github_repos_count)
            THEN gp.top_repos ELSE candidate.github_repos_count
        followers == candidate.followers_count
        has_github ==
            candidate.github_url # <<>> \/ candidate.github_username # <<>>
        has_x == candidate.x_username # NoId
        When(b, signal) == IF b THEN <<signal>> ELSE <<>>
    IN  [skills |-> candidate.skills_extracted,
         languages |-> IF gp.present THEN gp.languages ELSE <<>>,
         candidate_type |-> candidate.candidate_type,
         dev_score |-> dev_score,
         repo_count |-> repo_count,
         followers |-> followers,
         has_github |-> has_github,
         has_x |-> has_x,
         signals |->
             When(Truthy(dev_score) /\ dev_score >= HighDevScore,
                  "high_dev_score")
             \o When(Truthy(repo_count) /\ repo_count >= ManyRepos,
                     "many_repos")
             \o When(has_github /\ has_x, "multi_platform_presence")
             \o When(candidate.candidate_type = "developer",
                     "verified_developer")
             \o When(candidate.candidate_type = "influencer", "influencer")
             \o When(Truthy(followers) /\ followers > HighFollowers
                        /\ (~Truthy(repo_count) \/ repo_count < LowCode),
                     "high_follower_low_code")
             \o When(candidate.x_classification.is_actively_coding,
                     "actively_coding")
             \o When(candidate.x_classification.ships, "ships_products")]

\* [x for x, _ in Counter(items).most_common(n)]: the distinct items by
\* falling count, equal counts in the order of first occurrence
CountOf(items) ==
    [e \in {items[i] : i \in DOMAIN items} |->
        Cardinality({i \in DOMAIN items : items[i] = e})]

FirstOf(items) ==
    [e \in {items[i] : i \in DOMAIN items} |->
        CHOOSE i \in DOMAIN items :
            items[i] = e /\ \A k \in 1..(i - 1) : items[k] # e]

RankOf(count, first) ==
    [e \in DOMAIN count |->
        1 + Cardinality({f \in DOMAIN count :
                \/ count[f] > count[e]
                \/ count[f] = count[e] /\ first[f] < first[e]})]

\* a list that is neither counted nor cut
KeepAll(items, n) == items

\* (every table is bound once and then looked up)
MostCommon(items, n) ==
    CHOOSE top \in
        { [k \in 1..(IF n < Cardinality(DOMAIN rank) THEN n
                     ELSE Cardinality(DOMAIN rank)) |->
              CHOOSE e \in DOMAIN rank : rank[e] = k] :
          rank \in { RankOf(count, first) :
                       count \in {CountOf(list) : list \in {items}},
                       first \in {FirstOf(list) : list \in {items}} } } : TRUE

RECURSIVE GCD(_, _)
GCD(a, b) == IF b = 0 THEN a ELSE GCD(b, a % b)

Fraction(a, b) == LET g == GCD(a, b) IN [num |-> a \div g, den |-> b \div g]

\* old_avg = pattern.avg or value; ((old_avg * (n - 1)) + value) / n
RunningAverage(avg, value, n) ==
    IF value = NoNum THEN avg
    ELSE LET old_avg == IF avg.den = 0 \/ avg.num = 0
                        THEN [num |-> value, den |-> 1] ELSE avg
         IN  Fraction(old_avg.num * (n - 1) + value * old_avg.den,
                      old_avg.den * n)

\* a row RoleSuccessPattern(role_type=role_type) with the column defaults
NewPattern(role_type) ==
    [role_type |-> role_type,
     successful_skills |-> <<>>, successful_signals |-> <<>>,
     successful_languages |-> <<>>, rejection_patterns |-> <<>>,
     avg_dev_score |-> NoAvg, avg_repo_count |-> NoAvg,
     avg_followers |-> NoAvg, preferred_candidate_types |-> <<>>,
     hire_count |-> 0, shortlist_count |-> 0, reject_count |-> 0,
     total_actions |-> 0, confidence |-> 0]

_update_positive_signals(pattern, signals, action) ==
    LET hire_count == pattern.hire_count + (IF action = "hire" THEN 1 ELSE 0)
        shortlist_count ==
            pattern.shortlist_count
                + (IF action \in {"shortlist", "contact"} THEN 1 ELSE 0)
        n == hire_count + shortlist_count
    IN  [pattern EXCEPT
            !.hire_count = hire_count,
            !.shortlist_count = shortlist_count,
            !.successful_skills =
                MostCommon(pattern.successful_skills \o signals.skills,
                           TopSkills),
            !.successful_languages =
                MostCommon(pattern.successful_languages \o signals.languages,
                           TopLanguages),
            !.successful_signals =
                MostCommon(pattern.successful_signals \o signals.signals,
                           TopSignals),
            !.avg_dev_score =
                RunningAverage(pattern.avg_dev_score, signals.dev_score, n),
            !.avg_repo_count =
                RunningAverage(pattern.avg_repo_count, signals.repo_count, n),
            !.avg_followers =
                RunningAverage(pattern.avg_followers, signals.followers, n),
            !.preferred_candidate_types =
                IF signals.candidate_type # "unknown"
                THEN MostCommon(Append(pattern.preferred_candidate_types,
                                       signals.candidate_type), TopTypes)
                ELSE pattern.preferred_candidate_types]

\* a rejection that also forgets what the hires had in common
NegativeForgetsSkills(pattern, signals) ==
    [pattern EXCEPT !.reject_count = pattern.reject_count + 1,
                    !.successful_skills = <<>>]

_update_negative_signals(pattern, signals) ==
    LET When(b, r) == IF b THEN <<r>> ELSE <<>>
        current_rejections ==
            pattern.rejection_patterns
            \o When(signals.candidate_type \notin {"developer", "unknown"},
                    signals.candidate_type)
            \o SelectSeq(signals.signals,
                   LAMBDA s : s \in {"influencer", "high_follower_low_code"})
            \o When(~Truthy(signals.repo_count), "no_repos")
            \o When(~signals.has_github, "no_github")
    IN  [pattern EXCEPT
            !.reject_count = pattern.reject_count + 1,
            !.rejection_patterns =
                MostCommon(current_rejections, TopRejections)]

\* the confidence never levelling off
ConfidenceUncapped(total_actions) == total_actions

\* min(1.0, pattern.total_actions / 50), counted in fiftieths
Confidence(total_actions) == Min(FullConfidenceActions, total_actions)

\* the body of update_pattern_from_action on the row it has loaded
ApplyAction(pattern, signals, action) ==
    LET learned ==
            IF action \in {"hire", "shortlist", "contact"}
            THEN _update_positive_signals(pattern, signals, action)
            ELSE IF action = "reject"
            THEN _update_negative_signals(pattern, signals)
            ELSE pattern
        total_actions == pattern.total_actions + 1
    IN  [learned EXCEPT
            !.total_actions = total_actions,
            !.confidence = Confidence(total_actions)]

CandidateById(rows, candidate_id) == CHOOSE c \in rows : c.id = candidate_id

RoleOf(job_id) == RoleTypeOf[job_id]

get_or_create_pattern(store, role_type) ==
    IF store[role_type] = NoPattern THEN NewPattern(role_type)
    ELSE store[role_type]

\* update_pattern_from_action run with nothing in between its read and its
\* commit; it leaves the store alone when the job or the candidate is gone
Updated(store, job_ids, rows, a) ==
    IF a.job_id \notin job_ids \/ ~\E c \in rows : c.id = a.candidate_id
    THEN store
    ELSE LET role_type == RoleOf(a.job_id)
         IN  [store EXCEPT ![role_type] =
                 ApplyAction(get_or_create_pattern(store, role_type),
                     extract_candidate_signals(CandidateById(rows, a.candidate_id)),
                     a.action)]

\* ---------------------------------------------------- recording an action
\* POST /jobs/{job_id}/candidates/{candidate_id}/action: the action is
\* appended to the log (the status it sets on the link is not kept here);
\* the handler makes no call into the pattern store
track_recruiter_action(job_id, candidate_id, action) ==
    /\ Len(recruiter_actions) < MaxLog
    /\ job_id \in jobs
    /\ \E c \in candidates : c.id = candidate_id
    /\ recruiter_actions' =
         Append(recruiter_actions, RecruiterAction(job_id, candidate_id, action))
    /\ UNCHANGED <<jobs, candidates, job_candidates, runs, patterns, upd,
                   rebuild, scoring>>

\* ------------------------------------------- update_pattern_from_action
\* each call works in a session of its own: it reads the job, the candidate
\* and the pattern row (adding the row to its session when there is none),
\* computes the new columns from what it read, and commits them later
UpdBegin(u, job_id, candidate_id, action) ==
    /\ upd[u].pc = "idle"
    /\ upd' = [upd EXCEPT ![u] =
         IF job_id \notin jobs \/ ~\E c \in candidates : c.id = candidate_id
         THEN [IdleUpd EXCEPT !.pc = "done", !.result = "none"]
         ELSE [pc |-> "loaded", job_id |-> job_id,
               candidate_id |-> candidate_id, action |-> action,
               pattern |-> patterns[RoleOf(job_id)], result |-> NoId]]
    /\ UNCHANGED <<jobs, candidates, job_candidates, runs, recruiter_actions,
                   patterns, rebuild, scoring>>

\* the UPDATE the session flushes sets the columns whose value it changed
Flushed(stored, loaded, computed) ==
    LET Col(old, new, cur) == IF new # old THEN new ELSE cur
    IN  [role_type |-> stored.role_type,
         successful_skills |-> Col(loaded.successful_skills,
             computed.successful_skills, stored.successful_skills),
         successful_signals |-> Col(loaded.successful_signals,
             computed.successful_signals, stored.successful_signals),
         successful_languages |-> Col(loaded.successful_languages,
             computed.successful_languages, stored.successful_languages),
         rejection_patterns |-> Col(loaded.rejection_patterns,
             computed.rejection_patterns, stored.rejection_patterns),
         avg_dev_score |-> Col(loaded.avg_dev_score,
             computed.avg_dev_score, stored.avg_dev_score),
         avg_repo_count |-> Col(loaded.avg_repo_count,
             computed.avg_repo_count, stored.avg_repo_count),
         avg_followers |-> Col(loaded.avg_followers,
             computed.avg_followers, stored.avg_followers),
         preferred_candidate_types |-> Col(loaded.preferred_candidate_types,
             computed.preferred_candidate_types,
             stored.preferred_candidate_types),
         hire_count |-> Col(loaded.hire_count,
             computed.hire_count, stored.hire_count),
         shortlist_count |-> Col(loaded.shortlist_count,
             computed.shortlist_count, stored.shortlist_count),
         reject_count |-> Col(loaded.reject_count,
             computed.reject_count, stored.reject_count),
         total_actions |-> Col(loaded.total_actions,
             computed.total_actions, stored.total_actions),
         confidence |-> Col(loaded.confidence,
             computed.confidence, stored.confidence)]

\* db.commit(); a second INSERT of the role type breaks the unique index on
\* role_type and an UPDATE of a row that is gone matches nothing: both end
\* in the except branch, which rolls back and returns None
UpdCommit(u) ==
    /\ upd[u].pc = "loaded"
    /\ LET call == upd[u]
           role_type == RoleOf(call.job_id)
           stored == patterns[role_type]
           loaded == IF call.pattern = NoPattern THEN NewPattern(role_type)
                     ELSE call.pattern
           computed ==
               ApplyAction(loaded,
                   extract_candidate_signals(
                       CandidateById(candidates, call.candidate_id)),
                   call.action)
       IN  IF (call.pattern = NoPattern) # (stored = NoPattern)
           THEN /\ upd' = [upd EXCEPT ![u] =
                     [IdleUpd EXCEPT !.pc = "done", !.result = "none"]]
                /\ UNCHANGED patterns
           ELSE /\ patterns' = [patterns EXCEPT ![role_type] =
                     IF stored = NoPattern THEN computed
                     ELSE Flushed(stored, loaded, computed)]
                /\ upd' = [upd EXCEPT ![u] =
                     [IdleUpd EXCEPT !.pc = "done", !.result = role_type]]
    /\ UNCHANGED <<jobs, candidates, job_candidates, runs, recruiter_actions,
                   rebuild, scoring>>

\* ------------------------------------------ rebuild_patterns_from_history
\* the orders in which a query without ORDER BY may hand out n rows
RowOrders(n) ==
    {f \in [1..n -> 1..n] : \A i, k \in 1..n : f[i] = f[k] => i = k}

\* db.query(RoleSuccessPattern).delete()
DeletedPatterns(store) == [role_type \in DOMAIN store |-> NoPattern]

\* actions = db.query(RecruiterAction).all(), then the patterns are cleared
RebuildStart(order) ==
    /\ rebuild.pc \in {"idle", "done"}
    /\ rebuild' = [pc |-> "replaying",
                   actions |-> [i \in 1..Len(recruiter_actions) |->
                                   recruiter_actions[order[i]]],
                   i |-> 1]
    /\ patterns' = DeletedPatterns(patterns)
    /\ UNCHANGED <<jobs, candidates, job_candidates, runs, recruiter_actions,
                   upd, scoring>>

\* for action in actions: await update_pattern_from_action(...)
RebuildStep ==
    /\ rebuild.pc = "replaying"
    /\ rebuild.i <= Len(rebuild.actions)
    /\ patterns' = Updated(patterns, jobs, candidates, rebuild.actions[rebuild.i])
    /\ rebuild' = [rebuild EXCEPT !.i = rebuild.i + 1]
    /\ UNCHANGED <<jobs, candidates, job_candidates, runs, recruiter_actions,
                   upd, scoring>>

\* return {"patterns_created": ..., "actions_processed": len(actions)}
RebuildDone ==
    /\ rebuild.pc = "replaying"
    /\ rebuild.i > Len(rebuild.actions)
    /\ rebuild' = [rebuild EXCEPT !.pc = "done"]
    /\ UNCHANGED <<jobs, candidates, job_candidates, runs, recruiter_actions,
                   patterns, upd, scoring>>

\* ------------------------------------------------ the log and its replay
\* the database once sourcing has stored the three profiles
ProfilesStored ==
    /\ jobs = JobIds
    /\ candidates = Profiles
    /\ job_candidates = EmptyBag
    /\ runs = [r \in Runs |-> IdleRun(r)]

ReplayInit == ProfilesStored /\ MemoryInit /\ ScoringInit

ReplayNext ==
    \/ \E j \in JobIds, c \in ProfileIds, a \in ActionTypes :
          track_recruiter_action(j, c, a)
    \/ \E order \in RowOrders(Len(recruiter_actions)) : RebuildStart(order)
    \/ RebuildStep
    \/ RebuildDone

ReplaySpec == ReplayInit /\ [][ReplayNext]_vars

\* update_pattern_from_action run on every action of a log, one by one, in
\* the order of the log, from an empty store
RECURSIVE Incremental(_)
Incremental(log) ==
    IF log = <<>> THEN [role_type \in RoleTypes |-> NoPattern]
    ELSE Updated(Incremental(SubSeq(log, 1, Len(log) - 1)), JobIds, Profiles,
                 log[Len(log)])

\* ------------------------------------------------ two updates at a time
LogEntries ==
    {RecruiterAction(j, c, a) : j \in JobIds, c \in ProfileIds, a \in ActionTypes}

UpdateInit ==
    /\ ProfilesStored
    /\ recruiter_actions = <<>>
    /\ \E log \in {<<>>} \cup {<<a>> : a \in LogEntries} :
          patterns = Incremental(log)
    /\ upd = [u \in Updaters |-> IdleUpd]
    /\ rebuild = IdleRebuild
    /\ ScoringInit

UpdateNext ==
    \E u \in Updaters :
        \/ \E j \in JobIds, c \in ProfileIds, a \in ActionTypes :
              UpdBegin(u, j, c, a)
        \/ UpdCommit(u)

UpdateSpec == UpdateInit /\ [][UpdateNext]_vars

\* what a pattern row counts; no row counts nothing
TotalActions(pattern) ==
    IF pattern = NoPattern THEN 0 ELSE pattern.total_actions

Logged(role_type) ==
    Cardinality({i \in DOMAIN recruiter_actions :
                    RoleOf(recruiter_actions[i].job_id) = role_type})

SetOf(items) == {items[i] : i \in DOMAIN items}

\* two pattern rows agree on the counters, the averages and the members of
\* the top-N lists
SamePattern(p, q) ==
    \/ p = NoPattern /\ q = NoPattern
    \/ /\ p # NoPattern /\ q # NoPattern
       /\ p.hire_count = q.hire_count
       /\ p.shortlist_count = q.shortlist_count
       /\ p.reject_count = q.reject_count
       /\ p.total_actions = q.total_actions
       /\ p.confidence = q.confidence
       /\ p.avg_dev_score = q.avg_dev_score
       /\ p.avg_repo_count = q.avg_repo_count
       /\ p.avg_followers = q.avg_followers
       /\ SetOf(p.successful_skills) = SetOf(q.successful_skills)
       /\ SetOf(p.successful_languages) = SetOf(q.successful_languages)
       /\ SetOf(p.successful_signals) = SetOf(q.successful_signals)
       /\ SetOf(p.rejection_patterns) = SetOf(q.rejection_patterns)
       /\ SetOf(p.preferred_candidate_types) = SetOf(q.preferred_candidate_types)

\* C6: once a rebuild has returned and the log is still the one it read,
\* every stored pattern agrees (counters, averages, top-N members) with the
\* one got by applying the log's actions one by one in their original order.
C6_RebuildEqualsIncremental ==
    (rebuild.pc = "done" /\ Len(rebuild.actions) = Len(recruiter_actions))
        => \A role_type \in RoleTypes :
              SamePattern(patterns[role_type],
                          Incremental(recruiter_actions)[role_type])

\* C7: the pattern of every role type has counted exactly the actions that
\* are logged for the jobs of that role type.
C7_PatternCountsLoggedActions ==
    \A role_type \in RoleTypes :
        TotalActions(patterns[role_type]) = Logged(role_type)

\* C8: whatever else is in flight, a call of update_pattern_from_action that
\* returns leaves total_actions of its role type one higher than it was
\* stored just before, and the counter of its kind of action likewise.
C8_NoLostUpdate ==
    [][\A u \in Updaters :
          (upd[u].pc = "loaded" /\ upd'[u].pc = "done") =>
              LET role_type == RoleOf(upd[u].job_id)
                  before == get_or_create_pattern(patterns, role_type)
                  after == patterns'[role_type]
                  Up(b) == IF b THEN 1 ELSE 0
              IN  /\ after # NoPattern
                  /\ after.total_actions = before.total_actions + 1
                  /\ after.hire_count =
                        before.hire_count + Up(upd[u].action = "hire")
                  /\ after.shortlist_count =
                        before.shortlist_count + Up(upd[u].action = "shortlist")
                  /\ after.reject_count =
                        before.reject_count + Up(upd[u].action = "reject")]_vars

\* ================================================================ scoring
\* services/embedding.py, services/grok_api.py, tasks/celery_tasks.py

\* numeric constants of the program
DefaultScore == 50
MaxScore == 100
SkillBoost == 2
SkillBoostCap == 10
SignalBoost == 3
SignalBoostCap == 12
LanguageBoost == 2
LanguageBoostCap == 6
DevScoreBoost == 5
RejectionPenalty == 5
RejectionPenaltyCap == 15
TypePenalty == 10

MaxHistory == 11   \* actions a role type has learned from when scoring starts

\* what the model answers when asked for a number: the first run of digits
\* of its reply, or NoNum when there is no reply or no digit in it
\* what the scoring call of chat_completion answers; <<>> is None
Responses ==
    { <<>>,
      <<"n","/","a">>,
      <<"3">>,
      <<"9","8","%">>,
      <<"s","c","o","r","e",":"," ","2","5","0">> }

\* Job.requirements
JobRequirements(job_id) ==
    IF job_id = "j1" THEN "5+ years of Swift" ELSE "Go and Postgres"

\* the number of the answer taken as it comes
ScoreAsAnswered(response) ==
    IF FirstDigitRun(response) = <<>> THEN DefaultScore
    ELSE ToNumber(FirstDigitRun(response))

score_candidate_for_job(response) ==
    IF FirstDigitRun(response) = <<>> THEN DefaultScore
    ELSE Min(MaxScore, Max(0, ToNumber(FirstDigitRun(response))))

get_pattern_for_job(job_id) ==
    IF job_id \notin jobs THEN NoPattern ELSE patterns[RoleOf(job_id)]

\* the callers keep the pattern only from confidence 0.2 on
LearnedPattern(job_id) ==
    LET learned_pattern == get_pattern_for_job(job_id)
    IN  IF learned_pattern # NoPattern
           /\ learned_pattern.confidence >= TrustThreshold
        THEN learned_pattern ELSE NoPattern

\* the confidence test dropped: any stored pattern is applied
UntrustedOnlyAbsent(pattern) == pattern = NoPattern

\* not pattern or pattern.get("confidence", 0) < 0.2
Untrusted(pattern) ==
    pattern = NoPattern \/ pattern.confidence < TrustThreshold

\* the score handed on as it comes
Unclamped(score) == score

\* max(0, min(100, score))
ClampScore(score) == Max(0, Min(MaxScore, score))

RECURSIVE SumDeltas(_)
SumDeltas(adjustments) ==
    IF adjustments = <<>> THEN 0
    ELSE adjustments[1].delta + SumDeltas(Tail(adjustments))

\* the reasons of an adjustment keep their kind and their amount
Adjustments(signals, pattern) ==
    LET Matches(mine, learned) == SetOf(mine) \cap SetOf(learned)
        Capped(matches, each, cap) == Min(Cardinality(matches) * each, cap)
        When(b, reason, delta) ==
            IF b THEN <<[reason |-> reason, delta |-> delta]>> ELSE <<>>
        skill_matches == Matches(signals.skills, pattern.successful_skills)
        signal_matches == Matches(signals.signals, pattern.successful_signals)
        lang_matches ==
            Matches(signals.languages, pattern.successful_languages)
        rejection_matches ==
            Matches(signals.signals, pattern.rejection_patterns)
        avg == pattern.avg_dev_score
    IN  When(skill_matches # {}, "skills",
             Capped(skill_matches, SkillBoost, SkillBoostCap))
        \o When(signal_matches # {}, "signals",
                Capped(signal_matches, SignalBoost, SignalBoostCap))
        \o When(lang_matches # {}, "languages",
                Capped(lang_matches, LanguageBoost, LanguageBoostCap))
        \o When(/\ Truthy(signals.dev_score)
                /\ avg.den # 0 /\ avg.num # 0
                /\ signals.dev_score * avg.den >= avg.num,
                "dev_score", DevScoreBoost)
        \o When(rejection_matches # {}, "rejection_patterns",
                0 - Capped(rejection_matches, RejectionPenalty,
                           RejectionPenaltyCap))
        \o When(signals.candidate_type \in SetOf(pattern.rejection_patterns),
                "candidate_type", 0 - TypePenalty)

\* a scorer that adjusts and gives no reason
AdjustedUnexplained(candidate, base_score, pattern) ==
    IF Untrusted(pattern)
    THEN [score |-> base_score, adjustments |-> <<>>]
    ELSE [score |->
              ClampScore(base_score
                  + SumDeltas(Adjustments(extract_candidate_signals(candidate),
                                          pattern))),
          adjustments |-> <<>>]

calculate_memory_adjusted_score(candidate, base_score, pattern) ==
    IF Untrusted(pattern)
    THEN [score |-> base_score, adjustments |-> <<>>]
    ELSE LET adjustments ==
                 CHOOSE reasons \in
                     {Adjustments(signals, pattern) :
                         signals \in {extract_candidate_signals(candidate)}} :
                     TRUE
         IN  [score |-> ClampScore(base_score + SumDeltas(adjustments)),
              adjustments |-> adjustments]

\* one call of calculate_memory_adjusted_score, with what it was given
Call(candidate, base_score, pattern) ==
    LET result ==
            calculate_memory_adjusted_score(candidate, base_score, pattern)
    IN  [candidate_id |-> candidate.id, base_score |-> base_score,
         pattern |-> pattern, score |-> result.score,
         adjustments |-> result.adjustments]

\* calculate_match_scores(job_id, candidate_id): the links of the pair get
\* the adjusted score when a pattern was kept, the base score otherwise
calculate_match_scores(job_id, candidate_id, response) ==
    /\ job_id \in jobs
    /\ JobRequirements(job_id) # ""
    /\ Linked(job_id, candidate_id)
    /\ LET learned_pattern == LearnedPattern(job_id)
           base_score == score_candidate_for_job(response)
           call == Call(CandidateById(candidates, candidate_id), base_score,
                        learned_pattern)
           jc == JobCandidate(job_id, candidate_id)
       IN  IF learned_pattern # NoPattern
           THEN /\ adjusted' = call
                /\ match_score' = (jc :> call.score) @@ match_score
           ELSE /\ match_score' = (jc :> base_score) @@ match_score
                /\ UNCHANGED adjusted
    /\ grok' = [call |-> "score_candidate_for_job", job_id |-> job_id,
                candidate_id |-> candidate_id, response |-> response]
    /\ UNCHANGED <<jobs, candidates, job_candidates, runs, memory, evidence,
                   quick, task, normalized>>

\* the scorer applied to a base score and to the pattern stored for the job,
\* whatever its confidence
adjusted_score(job_id, candidate_id, response) ==
    /\ job_id \in jobs
    /\ Linked(job_id, candidate_id)
    /\ adjusted' = Call(CandidateById(candidates, candidate_id),
                        score_candidate_for_job(response),
                        get_pattern_for_job(job_id))
    /\ UNCHANGED <<jobs, candidates, job_candidates, runs, memory,
                   match_score, evidence, quick, task, grok, normalized>>

\* what get_full_developer_profile may answer
FetchedProfiles ==
    { NoProfile,
      [present |-> TRUE, developer_score |-> 40, languages |-> <<"swift">>,
       top_repos |-> 2] }

\* generate_evidence_cards_task(job_id): every link of the job without
\* evidence gets a card made with the learned pattern the task kept;
\* generated are the links whose card the model produced; a candidate with
\* a GitHub address and no stored GitHub profile has it fetched first
generate_evidence_cards_task(job_id, generated, fetched) ==
    /\ job_id \in jobs
    /\ LET pending == {jc \in BagToSet(job_candidates) :
                          jc.job_id = job_id /\ jc \notin DOMAIN evidence}
           learned_pattern == LearnedPattern(job_id)
           Fetch(c) ==
               /\ \E jc \in pending : jc.candidate_id = c.id
               /\ ~c.github_profile.present
               /\ _extract_github_username(c.github_url) # <<>>
               /\ fetched.present
       IN  /\ pending # {}
           /\ generated \subseteq pending
           /\ evidence' =
                [jc \in generated |-> [learned_pattern |-> learned_pattern]]
                    @@ evidence
           /\ candidates' =
                {IF Fetch(c) THEN [c EXCEPT !.github_profile = fetched] ELSE c :
                    c \in candidates}
    /\ UNCHANGED <<jobs, job_candidates, runs, memory, match_score, adjusted,
                   quick, task, grok, normalized>>

\* n actions of a role type: n - 1 times a, then b
History(a, b, n) == [i \in 1..n |-> IF i < n THEN a ELSE b]

HistoryLengths == {0} \cup ((TrustThreshold - 1)..MaxHistory)

\* the patterns learned so far, one candidate linked to one job
ScoreInit ==
    /\ jobs = JobIds
    /\ candidates = Profiles
    /\ \E j \in JobIds, c \in ProfileIds :
          job_candidates = SetToBag({JobCandidate(j, c)})
    /\ runs = [r \in Runs |-> IdleRun(r)]
    /\ recruiter_actions = <<>>
    /\ \E a \in LogEntries, b \in LogEntries, n \in HistoryLengths :
          /\ a.job_id = b.job_id
          /\ a.action \in {"hire", "reject"}
          /\ patterns = Incremental(History(a, b, n))
    /\ upd = [u \in Updaters |-> IdleUpd]
    /\ rebuild = IdleRebuild
    /\ ScoringInit

ScoreNext ==
    \/ \E j \in JobIds, c \in ProfileIds, response \in Responses :
          calculate_match_scores(j, c, response)
    \/ \E j \in JobIds, c \in ProfileIds, response \in Responses :
          adjusted_score(j, c, response)
    \/ \E j \in JobIds, generated \in SUBSET BagToSet(job_candidates),
          fetched \in FetchedProfiles :
          generate_evidence_cards_task(j, generated, fetched)

ScoreSpec == ScoreInit /\ [][ScoreNext]_vars

\* C9: every score calculate_memory_adjusted_score returns lies in 0..100,
\* whatever the base score it was supplied with, the candidate and the
\* pattern (none, below the confidence threshold, or trusted).
C9_AdjustedScoreInRange ==
    adjusted # NoCall => (adjusted.score >= 0 /\ adjusted.score <= MaxScore)

\* a trusted pattern whose boosts lift a base score of 98 over 100
C9_Witness ==
    /\ adjusted # NoCall
    /\ adjusted.pattern # NoPattern
    /\ adjusted.pattern.confidence >= TrustThreshold
    /\ adjusted.base_score + SumDeltas(adjusted.adjustments) > MaxScore
    /\ adjusted.score = MaxScore

\* C10: with no pattern, or one of confidence below 0.2, the scorer returns
\* the base score and no adjustment, and no evidence card is made with a
\* pattern of confidence below 0.2; from confidence 0.2 on the pattern is
\* applied: a candidate sharing a learned skill gets an adjustment, and the
\* evidence cards of the role type are made with the pattern.
C10_PatternAppliedFromThreshold ==
    /\ adjusted # NoCall =>
          IF \/ adjusted.pattern = NoPattern
             \/ adjusted.pattern.confidence < TrustThreshold
          THEN /\ adjusted.score = adjusted.base_score
               /\ adjusted.adjustments = <<>>
          ELSE (\E c \in candidates :
                   /\ c.id = adjusted.candidate_id
                   /\ SetOf(c.skills_extracted)
                        \cap SetOf(adjusted.pattern.successful_skills) # {})
               => adjusted.adjustments # <<>>
    /\ \A jc \in DOMAIN evidence :
          LET given == evidence[jc].learned_pattern
              stored == patterns[RoleOf(jc.job_id)]
          IN  /\ given # NoPattern => given.confidence >= TrustThreshold
              /\ (stored # NoPattern /\ stored.confidence >= TrustThreshold)
                    => given = stored

\* a pattern one action short of the threshold, holding a skill of the
\* candidate, was handed to the scorer, and an evidence card was made
C10_Witness ==
    /\ adjusted # NoCall
    /\ adjusted.pattern # NoPattern
    /\ adjusted.pattern.confidence = TrustThreshold - 1
    /\ \E c \in candidates :
          /\ c.id = adjusted.candidate_id
          /\ SetOf(c.skills_extracted)
                \cap SetOf(adjusted.pattern.successful_skills) # {}
    /\ \E jc \in DOMAIN evidence : evidence[jc].learned_pattern = NoPattern

\* ===================================================== the confidence ramp
MaxApplied == 51   \* actions applied to the patterns

\* update_pattern_from_action(job_id, candidate_id, action), run from its
\* read to its commit with no other session in between
update_pattern_from_action(job_id, candidate_id, action) ==
    /\ TotalActions(get_pattern_for_job(job_id)) < MaxApplied
    /\ patterns' = Updated(patterns, jobs, candidates,
                           RecruiterAction(job_id, candidate_id, action))
    /\ UNCHANGED <<jobs, candidates, job_candidates, runs, recruiter_actions,
                   upd, rebuild, scoring>>

\* one recruiter working on one candidate of one job
RampNext ==
    \E a \in {"view", "hire", "reject"} :
        update_pattern_from_action("j1", "c1", a)

RampSpec == ReplayInit /\ [][RampNext]_vars

\* C11: the confidence of every stored pattern is min(1, total_actions/50);
\* it is 25/50 at exactly 25 actions and 50/50 from 50 actions on.
C11_ConfidenceRamp ==
    \A role_type \in RoleTypes :
        LET pattern == patterns[role_type]
            n == pattern.total_actions
        IN  pattern # NoPattern =>
              /\ pattern.confidence * 50 =
                    (IF n < 50 THEN n ELSE 50) * FullConfidenceActions
              /\ n = 25 => 2 * pattern.confidence = FullConfidenceActions
              /\ n >= 50 => pattern.confidence = FullConfidenceActions

\* a pattern that has learned from more than 50 actions
C11_Witness ==
    \E role_type \in RoleTypes :
        /\ patterns[role_type] # NoPattern
        /\ patterns[role_type].total_actions > 50

\* ================================================= the heuristic pre-score
\* XAPIClient.quick_dev_score: the cheap filter run before the classifier
BaselineScore == 50
DevKeywordBoost == 15
GitHubBoost == 20
TechTermBoost == 5
TechBoostCap == 20
NegativePenalty == 15
DigitRun == 5
DigitPenalty == 20
BotPenalty == 30
TweetCodeBoost == 15
TweetTagBoost == 10
TweetBuildBoost == 10
InfluencerFollowers == 50000
InfluencerFollowing == 500
InfluencerPenalty == 20
MaxQuickScore == 100

MaxAdded == 1   \* keywords added to one bio

dev_keywords ==
    { <<"d","e","v","e","l","o","p","e","r">>,
      <<"e","n","g","i","n","e","e","r">>,
      <<"d","e","v">>,
      <<"p","r","o","g","r","a","m","m","e","r">>,
      <<"c","o","d","e","r">>,
      <<"s","o","f","t","w","a","r","e">>,
      <<"b","a","c","k","e","n","d">>,
      <<"f","r","o","n","t","e","n","d">>,
      <<"f","u","l","l","s","t","a","c","k">>,
      <<"i","o","s"," ","d","e","v">>,
      <<"a","n","d","r","o","i","d"," ","d","e","v">>,
      <<"w","e","b"," ","d","e","v">> }

github_keywords ==
    { <<"g","i","t","h","u","b">>,
      <<"g","i","t","h","u","b",".","c","o","m">> }

tech_terms ==
    { <<"s","w","i","f","t">>,
      <<"s","w","i","f","t","u","i">>,
      <<"r","e","a","c","t">>,
      <<"p","y","t","h","o","n">>,
      <<"j","a","v","a","s","c","r","i","p","t">>,
      <<"t","y","p","e","s","c","r","i","p","t">>,
      <<"r","u","s","t">>,
      <<"g","o","l","a","n","g">>,
      <<"k","o","t","l","i","n">>,
      <<"f","l","u","t","t","e","r">>,
      <<"n","o","d","e">>,
      <<"d","j","a","n","g","o">>,
      <<"f","a","s","t","a","p","i">>,
      <<"a","w","s">>,
      <<"d","o","c","k","e","r">>,
      <<"k","u","b","e","r","n","e","t","e","s">> }

negative_bio ==
    { <<"i","n","f","l","u","e","n","c","e","r">>,
      <<"c","o","a","c","h">>,
      <<"m","e","n","t","o","r">>,
      <<"t","i","p","s">>,
      <<"a","d","v","i","c","e">>,
      <<"f","o","l","l","o","w"," ","f","o","r">>,
      <<"d","a","i","l","y">>,
      <<"m","o","t","i","v","a","t","i","o","n">>,
      <<"c","r","y","p","t","o">>,
      <<"n","f","t">>,
      <<"t","r","a","d","i","n","g">>,
      <<"f","o","r","e","x">>,
      <<"m","a","r","k","e","t","i","n","g">>,
      <<"s","e","o">>,
      <<"g","r","o","w","t","h">>,
      <<"v","i","r","a","l">> }

\* re.search(r'\d{5,}', username)
HasDigitRun(username) ==
    \E i \in 1..(Len(username) - DigitRun + 1) :
        \A k \in 0..(DigitRun - 1) : username[i + k] \in Digits

AnyIn(keywords, text) == \E kw \in keywords : In(kw, text)

TechBoostNegated(tech_count) == 0 - Min(tech_count * TechTermBoost, TechBoostCap)

\* min(tech_count * 5, 20)
TechBoost(tech_count) == Min(tech_count * TechTermBoost, TechBoostCap)

\* the sum quick_dev_score builds up on the lowered texts
QuickScoreOf(bio, username, tweet, followers, following) ==
    LET score ==
            BaselineScore
            + (IF AnyIn(dev_keywords, bio) THEN DevKeywordBoost ELSE 0)
            + (IF AnyIn(github_keywords, bio) THEN GitHubBoost ELSE 0)
            + TechBoost(Cardinality({term \in tech_terms : In(term, bio)}))
            - NegativePenalty
                * Cardinality({neg \in negative_bio : In(neg, bio)})
            - (IF HasDigitRun(username) THEN DigitPenalty ELSE 0)
            - (IF AnyIn({<<"b","o","t">>, <<"n","e","w","s">>, <<"j","o","b">>},
                        username)
               THEN BotPenalty ELSE 0)
            + (IF AnyIn({<<"g","i","t","h","u","b",".","c","o","m">>,
                         <<"p","u","l","l"," ","r","e","q","u","e","s","t">>,
                         <<"m","e","r","g","e","d">>},
                        tweet)
               THEN TweetCodeBoost ELSE 0)
            + (IF AnyIn({<<"#","i","o","s","d","e","v">>,
                         <<"#","s","w","i","f","t","u","i">>,
                         <<"#","r","e","a","c","t","j","s">>,
                         <<"#","p","y","t","h","o","n">>},
                        tweet)
               THEN TweetTagBoost ELSE 0)
            + (IF AnyIn({<<"i"," ","b","u","i","l","t">>,
                         <<"i"," ","s","h","i","p","p","e","d">>,
                         <<"w","o","r","k","i","n","g"," ","o","n">>},
                        tweet)
               THEN TweetBuildBoost ELSE 0)
            - (IF followers > InfluencerFollowers /\ following < InfluencerFollowing
               THEN InfluencerPenalty ELSE 0)
    IN  score

\* (the lowered texts and the sum are bound once)
quick_dev_score(user, tweet_text) ==
    CHOOSE clamped \in
        {Max(0, Min(MaxQuickScore, score)) :
            score \in
              {QuickScoreOf(bio, username, tweet,
                            user.public_metrics.followers_count,
                            user.public_metrics.following_count) :
                  bio \in {Lower(user.description)},
                  username \in {Lower(user.username)},
                  tweet \in {Lower(tweet_text)}}} : TRUE

\* bios the acquisition collaborator can return
Descriptions ==
    { <<>>,
      <<"S","w","i","f","t"," ","c","o","a","c","h">>,
      <<"c","o","n","f">>,
      <<"f","o","l","l","o","w">>,
      <<"i","O","S"," ","D","e","v"," ","d","a","i","l","y"," ","t","i","p","s">>,
      <<"s","e">>,
      <<"G","i","t","H","u","b"," ","R","u","s","t"," ","G","o">> }

\* account names, audience and the tweet the profile was found by
RawAccounts ==
    { [username |-> <<"a","l","i","c","e">>, followers_count |-> 100, following_count |-> 100,
       tweet_text |-> <<>>],
      [username |-> <<"J","o","b","B","o","t","1","2","3","4","5">>,
       followers_count |-> 60000, following_count |-> 100,
       tweet_text |-> <<"M","e","r","g","e","d"," ","#","P","y","t","h","o","n"," ","I"," ","b","u","i","l","t"," ","i","t">>] }

RawUser(description, account) ==
    [description |-> description, username |-> account.username,
     public_metrics |-> [followers_count |-> account.followers_count,
                         following_count |-> account.following_count]]

\* the words the pre-score rewards in a bio
PositiveKeywords == dev_keywords \cup github_keywords \cup tech_terms

\* the bio with one more word: kw set off by a space at a word boundary
WithKeyword(description, kw, i) ==
    IF description = <<>> THEN kw
    ELSE IF i = 0 THEN kw \o <<" ">> \o description
    ELSE IF i = Len(description) THEN description \o <<" ">> \o kw
    ELSE SubSeq(description, 1, i) \o kw \o <<" ">>
         \o SubSeq(description, i + 1, Len(description))

WordBoundaries(description) ==
    {i \in 0..Len(description) :
        i = 0 \/ i = Len(description) \/ description[i] = " "}

QuickInit ==
    /\ jobs = JobIds
    /\ candidates = {}
    /\ job_candidates = EmptyBag
    /\ runs = [r \in Runs |-> IdleRun(r)]
    /\ MemoryInit
    /\ match_score = <<>>
    /\ evidence = <<>>
    /\ adjusted = NoCall
    /\ task = IdleTask
    /\ grok = NoAnswer
    /\ normalized = NoTitle
    /\ quick \in {[user |-> RawUser(d, account), tweet_text |-> account.tweet_text,
                   added |-> 0, score |-> NoNum] :
                     d \in Descriptions, account \in RawAccounts}

\* the run scores the raw profile
QuickScore ==
    /\ quick.score = NoNum
    /\ quick' = [quick EXCEPT !.score = quick_dev_score(quick.user, quick.tweet_text)]
    /\ UNCHANGED <<jobs, candidates, job_candidates, runs, memory, match_score,
                   evidence, adjusted, task, grok, normalized>>

\* the same profile comes back with one more positive keyword in its bio and
\* is scored again
QuickRescore(kw, i) ==
    /\ quick.score # NoNum
    /\ quick.added < MaxAdded
    /\ i \in WordBoundaries(quick.user.description)
    /\ LET user == [quick.user EXCEPT
                       !.description = WithKeyword(quick.user.description, kw, i)]
       IN  quick' = [quick EXCEPT !.user = user, !.added = @ + 1,
                                  !.score = quick_dev_score(user, quick.tweet_text)]
    /\ UNCHANGED <<jobs, candidates, job_candidates, runs, memory, match_score,
                   evidence, adjusted, task, grok, normalized>>

QuickNext ==
    \/ QuickScore
    \/ \E kw \in PositiveKeywords :
          \E i \in WordBoundaries(quick.user.description) : QuickRescore(kw, i)

QuickSpec == QuickInit /\ [][QuickNext]_vars

\* C12: with the username, the audience and the tweet fixed, a bio that gains
\* a positive keyword (role keyword, tech term or GitHub cross-link) never
\* gets a lower pre-score than it had
C12_KeywordNeverLowers ==
    [][(quick.score # NoNum /\ quick'.score # NoNum)
          => quick'.score >= quick.score]_vars

\* a bio that also holds a penalised word gained a keyword and was rescored
C12_Witness ==
    /\ quick.score # NoNum
    /\ quick.added > 0
    /\ AnyIn(negative_bio, Lower(quick.user.description))
    /\ quick.score > 0

\* ================================================ a sourcing task in detail
\* tasks/celery_tasks.py: source_candidates_task (user search or tweet
\* search), source_from_usernames_task and source_from_github_task, call by
\* call: progress stages, pre-score, tweets, classification, filter, store

UserSearchThreshold == 40    \* quick_score < 40 is skipped by the user search
TweetSearchThreshold == 30   \* quick_score < 30 is skipped by the tweet search
SkipConfidence == 60         \* recommendation skip counts from 0.6 (hundredths)
GitHubSkipConfidence == 70   \* the GitHub path skips from 0.7 (hundredths)
MinDevScore == 50            \* min_dev_score of the GitHub task
SkippedClassificationConfidence == 100   \* confidence 1.0 of a trusted seed

\* the percent reported with each stage
InitializingProgress == 5
SearchingProgress == 15
QueryBase == 20
QuerySpan == 50
UserBase == 25
UserSpan == 55
EnrichingProgress == 85
CompleteProgress == 100

MaxQueries == 2   \* search queries of one tweet search

Stages == <<"initializing", "searching", "analyzing", "enriching", "complete">>

StageRank(stage) == CHOOSE i \in 1..Len(Stages) : Stages[i] = stage

\* self.update_state(state='PROGRESS', meta={'stage': stage, ...})
update_state(t, stage, progress) ==
    [t EXCEPT !.stages = Append(@, stage), !.progress = Append(@, progress)]

\* a progress that counts the queries still to come
QueryProgressLeft(query_idx, total_queries) ==
    QueryBase + ((total_queries - query_idx) * QuerySpan) \div total_queries

\* progress = 20 + int((query_idx / total_queries) * 50)
QueryProgress(query_idx, total_queries) ==
    QueryBase + (query_idx * QuerySpan) \div total_queries

\* progress = 25 + int((idx / total_users) * 55)
UserProgress(idx, total_users) ==
    UserBase + (idx * UserSpan) \div total_users

\* exceptions of the calls a task makes
DbError == "OperationalError"
Timeout == "ConnectTimeout"
BrokerError == "kombu.OperationalError"
ParseError == "TypeError"

\* ------------------------------------------ the classification collaborator
JNum(n) == [t |-> "number", n |-> n]
JStr(s) == [t |-> "string", s |-> s]
JNull == [t |-> "null"]

\* what chat_completion hands to classify_user_from_tweets: None (a status
\* other than 200), text without a JSON object, an object that json.loads
\* rejects, or an object with some of the fields (confidence in hundredths)
Payloads ==
    { [json |-> "none"],
      [json |-> "text"],
      [json |-> "invalid"],
      [json |-> "object", fields |-> <<>>],
      [json |-> "object",
       fields |-> [candidate_type |-> JStr("developer"), confidence |-> JNum(90),
                   recommendation |-> JStr("source")]],
      [json |-> "object",
       fields |-> [candidate_type |-> JStr("developer"), confidence |-> JNum(70),
                   recommendation |-> JStr("skip")]],
      [json |-> "object",
       fields |-> [candidate_type |-> JStr("influencer"), confidence |-> JNum(50),
                   recommendation |-> JStr("maybe")]],
      [json |-> "object",
       fields |-> [candidate_type |-> JStr("bot"), confidence |-> JNum(90),
                   recommendation |-> JStr("skip")]],
      [json |-> "object",
       fields |-> [candidate_type |-> JStr("developer"),
                   confidence |-> JStr("high")]],
      [json |-> "object",
       fields |-> [candidate_type |-> JStr("developer"), confidence |-> JNull]] }

\* parsed.get(key, default)
Get(fields, key, default) ==
    IF key \in DOMAIN fields THEN fields[key] ELSE default

\* float(value): a number, ValueError for a word, TypeError for None
Float(value) ==
    CASE value.t = "number" -> [error |-> "", n |-> value.n]
      [] value.t = "string" -> [error |-> "ValueError", n |-> 0]
      [] value.t = "null" -> [error |-> "TypeError", n |-> 0]

default_result ==
    [candidate_type |-> "unknown", confidence |-> 0, recommendation |-> "skip"]

\* classify_user_from_tweets on the answer of chat_completion: the
\* classification, or the exception its except clause does not catch
classify_user_from_tweets(payload) ==
    IF payload.json # "object"
    THEN [error |-> "", classification |-> default_result]
    ELSE LET confidence == Float(Get(payload.fields, "confidence", JNum(0)))
         IN  IF confidence.error = ParseError
             THEN [error |-> ParseError, classification |-> default_result]
             ELSE IF confidence.error = "ValueError"
             THEN [error |-> "", classification |-> default_result]
             ELSE [error |-> "",
                   classification |->
                     [candidate_type |->
                        Get(payload.fields, "candidate_type", JStr("unknown")).s,
                      confidence |-> confidence.n,
                      recommendation |->
                        Get(payload.fields, "recommendation", JStr("skip")).s]]

NonDevelopers == {"influencer", "recruiter", "company", "bot"}

\* the filter of process_users_from_search and of the tweet search
Excluded(classification) ==
    \/ classification.candidate_type \in NonDevelopers
    \/ /\ classification.recommendation = "skip"
       /\ classification.confidence > SkipConfidence

\* the filter of the GitHub path
GitHubExcluded(classification) ==
    /\ classification.candidate_type \in NonDevelopers
    /\ classification.confidence > GitHubSkipConfidence

\* ------------------------------------------------------ what the task meets
TaskKinds == {"source_candidates", "usernames", "github"}
SearchKinds == {"user_search", "tweet_search"}

\* bios an X account can come back with: pre-scores 65, 35 and 20
Bios ==
    { <<"i","O","S"," ","D","e","v">>,
      <<"c","o","a","c","h">>,
      <<"g","r","o","w","t","h"," ","t","i","p","s">> }

XUserById(id) == CHOOSE u \in XUsers : u.id = id
GitHubUserById(id) == CHOOSE g \in GitHubUsers : g.github_id = id

\* the raw profile quick_dev_score is given
RawProfile(u, bio) ==
    RawUser(bio, [username |-> IF u.username = "ua" THEN <<"u","a">> ELSE <<"u","b">>,
                  followers_count |-> 100, following_count |-> 100])

\* ids of the raw profiles a search or a seed list hands to the loop
Queues(ids) ==
    {<<>>} \cup UNION {[1..n -> ids] : n \in 1..MaxItems}

\* ---------------------------------------------------------- ends of a step
\* continue: the locals of the iteration are gone
TaskContinue(t) ==
    [t EXCEPT !.pc = "loop", !.user = NoUser, !.gh = NoGh, !.bio = <<>>,
              !.quick_score = NoNum, !.payload = IdleTask.payload,
              !.classification = IdleTask.classification]

TaskSkip(t) == [TaskContinue(t) EXCEPT !.skipped = t.skipped + 1]

\* return result
Returned(t, result) ==
    [TaskContinue(t) EXCEPT !.pc = "returned", !.result = result,
                            !.queue = <<>>, !.seen = {}]

\* except Exception: db.rollback(); raise
Raised(t, error) ==
    [TaskContinue(t) EXCEPT !.pc = "raised", !.error = error,
                            !.queue = <<>>, !.seen = {}, !.payload = t.payload]

Counts(t) ==
    [error |-> "", candidates_added |-> t.added, candidates_skipped |-> t.skipped]

TaskUnchanged ==
    UNCHANGED <<jobs, candidates, job_candidates, runs, memory, match_score,
                evidence, adjusted, quick, grok, normalized>>

StoreUnchanged ==
    UNCHANGED <<jobs, runs, memory, match_score, evidence, adjusted, quick, grok, normalized>>

\* a loop that never looks at max_results
NeverAtLimit(t) == FALSE

\* if candidates_added >= max_results: break (the usernames task has no
\* max_results and works through its whole list)
AtLimit(t) == t.kind # "usernames" /\ t.added >= t.max_results

\* ------------------------------------------------------------ the task steps
\* the task is delivered to a worker and reports its first stage (the
\* usernames task reports none)
TaskStart(kind, job_id, exclude_influencers, skip_classification, usernames, max_results) ==
    /\ task.pc = "idle"
    /\ kind = "source_candidates" \/ exclude_influencers
    /\ kind = "usernames" \/ (~skip_classification /\ usernames = <<>>)
    /\ kind = "usernames" => max_results = MaxResults
    /\ LET t == [task EXCEPT !.pc = "job", !.kind = kind, !.job_id = job_id,
                             !.exclude_influencers = exclude_influencers,
                             !.skip_classification = skip_classification,
                             !.queue = usernames,
                             !.max_results = max_results]
       IN  task' = IF kind = "usernames" THEN t
                   ELSE update_state(t, "initializing", InitializingProgress)
    /\ TaskUnchanged

\* job = db.query(Job).filter(Job.id == job_id).first()
TaskJob ==
    /\ task.pc = "job"
    /\ task' =
         IF task.job_id \notin jobs
         THEN Returned(task, [error |-> "Job not found"])
         ELSE IF task.kind = "usernames"
         THEN [task EXCEPT !.pc = "loop"]
         ELSE update_state([task EXCEPT !.pc = "search"], "searching",
                           SearchingProgress)
    /\ TaskUnchanged

\* the search: user search first and tweet search when it finds nothing
\* (source_candidates_task), search_users_comprehensive (GitHub task)
TaskSearch(user_search, found, total_queries) ==
    /\ task.pc = "search"
    /\ CASE task.kind = "source_candidates" ->
              /\ user_search => found # <<>>
              /\ found \in Queues({u.id : u \in XUsers})
              /\ task' =
                   IF user_search
                   THEN [task EXCEPT !.pc = "loop", !.kind = "user_search",
                                     !.queue = found]
                   ELSE update_state([task EXCEPT !.pc = "loop",
                                                  !.kind = "tweet_search",
                                                  !.queue = found,
                                                  !.total_queries = total_queries],
                                     "analyzing",
                                     QueryProgress(0, total_queries))
         [] task.kind = "tweet_search" ->
              \* the next query of the list
              /\ ~user_search
              /\ total_queries = task.total_queries
              /\ found \in Queues({u.id : u \in XUsers})
              /\ task' = update_state([task EXCEPT !.pc = "loop", !.queue = found],
                                      "analyzing",
                                      QueryProgress(task.query_idx,
                                                    task.total_queries))
         [] OTHER ->
              /\ ~user_search
              /\ total_queries = 1
              /\ found \in Queues({g.github_id : g \in GitHubUsers})
              /\ task' =
                   IF found = <<>>
                   THEN Returned(task, [error |-> "No users found",
                                        candidates_added |-> 0])
                   ELSE update_state([task EXCEPT !.pc = "loop", !.queue = found,
                                                  !.total_users = Len(found)],
                                     "analyzing", UserBase)
    /\ TaskUnchanged

\* the top of the loop: the next raw profile up to its first store read
TaskPick(bio, found) ==
    /\ task.pc = "loop"
    /\ task.queue # <<>> /\ ~AtLimit(task)
    /\ LET id == Head(task.queue)
           t == [task EXCEPT !.queue = Tail(@)]
       IN  CASE task.kind = "tweet_search" ->
                  /\ found
                  /\ task' =
                       IF id \in task.seen THEN TaskContinue(t)
                       ELSE LET quick_score ==
                                    quick_dev_score(RawProfile(XUserById(id), bio), <<>>)
                                seen == [t EXCEPT !.seen = @ \cup {id}]
                            IN  IF quick_score < TweetSearchThreshold
                                THEN TaskSkip(seen)
                                ELSE [seen EXCEPT !.pc = "lookup",
                                                  !.user = XUserById(id),
                                                  !.bio = bio,
                                                  !.quick_score = quick_score]
             [] task.kind = "user_search" ->
                  /\ found
                  /\ task' = [t EXCEPT !.pc = "lookup", !.user = XUserById(id),
                                       !.bio = bio]
             [] task.kind = "usernames" ->
                  \* get_user_by_username: None on a status other than 200
                  task' = IF ~found THEN TaskSkip(t)
                          ELSE [t EXCEPT !.pc = "lookup", !.user = XUserById(id),
                                         !.bio = bio]
             [] task.kind = "github" ->
                  /\ found /\ bio = <<>>
                  /\ task' = update_state([t EXCEPT !.pc = "lookup",
                                                    !.gh = GitHubUserById(id)],
                                          "analyzing",
                                          UserProgress(task.total_users
                                                          - Len(task.queue),
                                                       task.total_users))
    /\ TaskUnchanged

\* db.add(JobCandidate(existing)); db.commit(): a task whose job is gone
\* fails on the foreign key, which only the GitHub task turns into a result
TaskLink(t, candidate_id, counts) ==
    IF Linked(t.job_id, candidate_id)
    THEN /\ task' = TaskContinue(t)
         /\ UNCHANGED job_candidates
    ELSE IF t.job_id \notin jobs
    THEN /\ task' =
              IF t.kind = "github"
              THEN Returned(t, [Counts(t) EXCEPT
                                   !.error = "Job was deleted during sourcing"])
              ELSE Raised(t, FkViolation)
         /\ UNCHANGED job_candidates
    ELSE /\ job_candidates' =
              job_candidates (+) SetToBag({JobCandidate(t.job_id, candidate_id)})
         /\ task' = [TaskContinue(t) EXCEPT
                        !.added = IF counts THEN t.added + 1 ELSE t.added]

\* "check if already in DB", and the pre-filter of the user search
TaskLookup ==
    /\ task.pc = "lookup"
    /\ LET existing == IF task.kind = "github"
                       THEN ExistingByGithubUrl(task.gh.login)
                       ELSE ExistingByXId(task.user.id)
       IN  IF existing # {}
           THEN \E c \in existing : TaskLink(task, c.id, FALSE)
           ELSE /\ UNCHANGED job_candidates
                /\ task' =
                     CASE task.kind = "github" -> [task EXCEPT !.pc = "profile"]
                       [] task.kind = "user_search" ->
                            LET quick_score ==
                                  quick_dev_score(RawProfile(task.user, task.bio), <<>>)
                            IN  IF quick_score < UserSearchThreshold
                                THEN TaskSkip(task)
                                ELSE [task EXCEPT !.pc = "tweets",
                                                  !.quick_score = quick_score]
                       [] OTHER -> [task EXCEPT !.pc = "tweets"]
    /\ UNCHANGED <<jobs, candidates>>
    /\ StoreUnchanged

\* GitHub task: full profile, developer score, the X account of the profile
TaskProfile(developer_score, x_found) ==
    /\ task.pc = "profile"
    /\ task' =
         IF developer_score = NoNum \/ developer_score < MinDevScore
         THEN TaskSkip(task)     \* no profile, or a score below min_dev_score
         ELSE IF task.gh.twitter_username # NoId /\ x_found
         THEN [task EXCEPT !.pc = "tweets",
                           !.user = XUserByUsername(task.gh.twitter_username)]
         ELSE [task EXCEPT !.pc = "store"]
    /\ TaskUnchanged

\* get_user_tweets: the tweets, [] on a status other than 200
TaskTweets ==
    /\ task.pc = "tweets"
    /\ LET t == [task EXCEPT !.analyzed =
                     IF task.kind \in SearchKinds THEN @ + 1 ELSE @]
       IN  task' =
             IF task.kind = "usernames" /\ task.skip_classification
             THEN [t EXCEPT !.pc = "store",
                            !.classification =
                               [candidate_type |-> "developer",
                                confidence |-> SkippedClassificationConfidence,
                                recommendation |-> "source"]]
             ELSE [t EXCEPT !.pc = "classify"]
    /\ TaskUnchanged

\* classification = classify_user_from_tweets(user, user_tweets)
TaskClassify(payload) ==
    /\ task.pc = "classify"
    /\ LET outcome == classify_user_from_tweets(payload)
           t == [task EXCEPT !.payload = payload]
       IN  task' = IF outcome.error # "" THEN Raised(t, outcome.error)
                   ELSE [t EXCEPT !.pc = "classified",
                                  !.classification = outcome.classification]
    /\ TaskUnchanged

\* "skip non-developers if filtering is enabled"
TaskFilter ==
    /\ task.pc = "classified"
    /\ task' =
         CASE task.kind \in SearchKinds ->
                IF task.exclude_influencers /\ Excluded(task.classification)
                THEN TaskSkip(task) ELSE [task EXCEPT !.pc = "store"]
           [] task.kind = "github" ->
                IF GitHubExcluded(task.classification)
                THEN TaskSkip(task) ELSE [task EXCEPT !.pc = "store"]
           [] OTHER -> [task EXCEPT !.pc = "store"]
    /\ TaskUnchanged

\* the second store read and the insert: dedupe by GitHub (search paths),
\* by GitHub id or X id (GitHub task), then candidate and link in one commit
TaskStore ==
    /\ task.pc = "store"
    /\ LET gh_url == extract_github_url(task.user)
           gh_username == _extract_github_username(gh_url)
           found ==
              CASE task.kind \in SearchKinds ->
                     IF gh_url # <<>> \/ gh_username # <<>>
                     THEN GithubMatch(gh_url, gh_username) ELSE {}
                [] task.kind = "github" ->
                     ExistingByGithubOrXId(task.gh.github_id, task.user.id)
                [] OTHER -> {}
           row == IF task.kind = "github" THEN GhCandidate(task.gh, task.user)
                  ELSE XCandidate(task.kind, task.user)
       IN  IF found # {}
           THEN /\ \E c \in found : TaskLink(task, c.id, task.kind = "github")
                /\ UNCHANGED candidates
           ELSE IF UniqueConflict(row)
           THEN /\ task' = Raised(task, UniqueViolation)
                /\ UNCHANGED <<candidates, job_candidates>>
           ELSE IF task.job_id \notin jobs
           THEN /\ task' =
                     IF task.kind = "github"
                     THEN Returned(task, [Counts(task) EXCEPT
                                 !.error = "Job was deleted during sourcing"])
                     ELSE Raised(task, FkViolation)
                /\ UNCHANGED <<candidates, job_candidates>>
           ELSE /\ candidates' = candidates \cup {row}
                /\ job_candidates' =
                     job_candidates (+) SetToBag({JobCandidate(task.job_id, row.id)})
                /\ task' = [TaskContinue(task) EXCEPT !.added = task.added + 1]
    /\ StoreUnchanged

\* the stage reported when the loop of the tweet search is over
LoopEndStageSearching == "searching"

LoopEndStage == "enriching"

\* the tweet search has a query left after the results of this one
MoreQueries(t) ==
    t.kind = "tweet_search" /\ t.query_idx + 1 < t.total_queries

\* for query_idx, query in enumerate(search_queries): the next query
TaskNextQuery ==
    /\ task.pc = "loop"
    /\ task.queue = <<>> /\ ~AtLimit(task)
    /\ MoreQueries(task)
    /\ task' = [task EXCEPT !.pc = "search", !.query_idx = @ + 1]
    /\ TaskUnchanged

\* the loop is over: no profile (and no query) left, or max_results reached
TaskLoopEnd ==
    /\ task.pc = "loop"
    /\ (task.queue = <<>> /\ ~MoreQueries(task)) \/ AtLimit(task)
    /\ task' = IF task.kind = "tweet_search"
               THEN update_state([task EXCEPT !.pc = "enrich"], LoopEndStage,
                                 EnrichingProgress)
               ELSE [task EXCEPT !.pc = "enrich"]
    /\ TaskUnchanged

\* the follow-up tasks are queued when something was added, the last stage
\* is reported (tweet search, GitHub task) and the counts are returned
TaskFinish ==
    /\ task.pc = "enrich"
    /\ task' = IF task.kind \in {"tweet_search", "github"}
               THEN Returned(update_state(task, "complete", CompleteProgress),
                             Counts(task))
               ELSE Returned(task, Counts(task))
    /\ TaskUnchanged

\* the call the task is in raises (store or broker out of reach, a
\* collaborator that times out): every task rolls back and raises again
TaskRaise(error) ==
    /\ CASE task.pc \in {"job", "lookup", "store"} -> error = DbError
         [] task.pc \in {"search", "profile", "tweets", "classify"} ->
                error = Timeout
         [] task.pc = "loop" ->
                /\ task.queue # <<>> /\ ~AtLimit(task)
                /\ task.kind = "usernames"
                /\ error = Timeout
         [] task.pc = "enrich" ->
                /\ task.added > 0 \/ task.kind \in {"tweet_search", "github"}
                /\ error = BrokerError
         [] OTHER -> FALSE
    /\ task' = Raised(task, error)
    /\ TaskUnchanged

TaskErrors == {DbError, Timeout, BrokerError}

\* the steps of a task once it is delivered
TaskRun ==
    \/ TaskJob
    \/ \E user_search \in BOOLEAN,
          found \in Queues({u.id : u \in XUsers} \cup
                           {g.github_id : g \in GitHubUsers}),
          total_queries \in 1..MaxQueries :
          TaskSearch(user_search, found, total_queries)
    \/ \E bio \in Bios \cup {<<>>}, found \in BOOLEAN : TaskPick(bio, found)
    \/ TaskLookup
    \/ \E developer_score \in {NoNum, 40, 80}, x_found \in BOOLEAN :
          TaskProfile(developer_score, x_found)
    \/ TaskTweets
    \/ \E payload \in Payloads : TaskClassify(payload)
    \/ TaskFilter
    \/ TaskStore
    \/ TaskNextQuery
    \/ TaskLoopEnd
    \/ TaskFinish
    \/ \E error \in TaskErrors : TaskRaise(error)

\* a task called with max_results = MaxResults
TaskStep ==
    \/ \E kind \in TaskKinds, j \in JobIds, exclude_influencers \in BOOLEAN,
          skip_classification \in BOOLEAN,
          usernames \in Queues({u.id : u \in XUsers}) :
          TaskStart(kind, j, exclude_influencers, skip_classification, usernames,
                    MaxResults)
    \/ TaskRun

\* the scoring pass over a link of the job
TaskScore ==
    \E j \in JobIds, c \in candidates, response \in Responses :
        calculate_match_scores(j, c.id, response)

AdmissionNext ==
    \/ TaskStep
    \/ \E j \in JobIds : delete_job(j)
    \/ TaskScore

AdmissionSpec == Init /\ [][AdmissionNext]_vars

\* the latest stage the task reported
LastStage(t) == t.stages[Len(t.stages)]

Terminal(t) == t.pc \in {"returned", "raised"}

StagesInOrder ==
    \A i \in 1..(Len(task.stages) - 1) :
        StageRank(task.stages[i]) <= StageRank(task.stages[i + 1])

\* the task is at a call made right after a stage was reported
AfterReport ==
    /\ task.stages # <<>>
    /\ \/ task.pc = "job" /\ LastStage(task) = "initializing"
       \/ task.pc = "search" /\ LastStage(task) = "searching"
       \/ task.pc = "lookup" /\ LastStage(task) = "analyzing"
       \/ task.pc = "enrich" /\ LastStage(task) = "enriching"

\* C13: the stages a task reports come in the order initializing, searching,
\* analyzing, enriching, complete and never go back; once complete was
\* reported or the task has ended (result or exception) no stage follows;
\* and after the report of each stage but complete the task can still fail.
C13_StagesInOrder ==
    /\ [](StagesInOrder)
    /\ [][(Terminal(task) \/ (task.stages # <<>> /\ LastStage(task) = "complete"))
             => task'.stages = task.stages]_vars
    /\ [](AfterReport => ENABLED (\E error \in TaskErrors : TaskRaise(error)))

\* a tweet search that failed after it had reported enriching
C13_Witness ==
    /\ task.pc = "raised"
    /\ task.stages = <<"initializing", "searching", "analyzing", "enriching">>

\* C14: a collaborator call that fails for one profile (a status other than
\* 200, a timeout, a transport exception) makes the task skip that profile
\* and go on: the task never ends on the collaborator's exception, and a
\* profile whose classification call failed is not carried to the store.
C14_CollaboratorFailureSkipsItem ==
    /\ task.pc = "raised" => task.error # Timeout
    /\ task.pc = "store" /\ task.kind \in SearchKinds => task.payload.json # "none"

\* C15: a task never ends in an exception: whatever fails (a collaborator, the
\* store, a missing job) it ends with a result, and every result carries the
\* added and the skipped count.
C15_TypedResult ==
    /\ task.pc # "raised"
    /\ task.pc = "returned" =>
          {"candidates_added", "candidates_skipped"} \subseteq DOMAIN task.result

\* a payload that is no classification: no JSON object in the text, an
\* object json.loads rejects, or a confidence that is not a number
Malformed(payload) ==
    \/ payload.json \in {"text", "invalid"}
    \/ /\ payload.json = "object"
       /\ "confidence" \in DOMAIN payload.fields
       /\ payload.fields.confidence.t # "number"

\* C16: on a malformed answer of the classification collaborator the task
\* goes on with the default classification (type unknown, confidence 0) and
\* never ends on it; on an answer of the scoring collaborator that holds no
\* number the base score is 50 and the scoring pass goes on.
C16_MalformedFallsBack ==
    /\ task.pc = "raised" => task.error # ParseError
    /\ task.pc = "classified" /\ Malformed(task.payload) =>
          /\ task.classification.candidate_type = "unknown"
          /\ task.classification.confidence = 0
    /\ \A jc \in DOMAIN match_score :
          (/\ grok # NoAnswer
           /\ JobCandidate(grok.job_id, grok.candidate_id) = jc
           /\ FirstDigitRun(grok.response) = <<>>
           /\ LearnedPattern(jc.job_id) = NoPattern)
          => match_score[jc] = DefaultScore

\* C17: the deep classifier is called for a raw profile only once its
\* pre-score was computed and found at or above the admission threshold of
\* the path, in every sourcing task.
C17_ClassifierOnlyAfterPreScore ==
    task.pc \in {"classify", "classified"} =>
        /\ task.quick_score # NoNum
        /\ task.quick_score >= (IF task.kind = "user_search"
                                THEN UserSearchThreshold
                                ELSE TweetSearchThreshold)

\* C18: on every path that classifies, a profile classified as influencer,
\* recruiter, company or bot, or given recommendation skip with confidence
\* above 0.6, is counted as skipped and no Candidate row is written for it
\* (on the search paths: when exclude_influencers is on).
C18_ExcludedNeverPersisted ==
    [][(/\ task.pc = "classified"
        /\ task.kind \in SearchKinds => task.exclude_influencers
        /\ Excluded(task.classification)
        /\ task' # task)
          => /\ task'.skipped = task.skipped + 1
             /\ task'.pc = "loop"
             /\ candidates' = candidates]_vars

\* C19: with a trusted pattern (confidence 0.2 or more) the scorer returns
\* base + min(2*matched skills, 10) + min(3*matched signals, 12)
\* + min(2*matched languages, 6) + 5 if the candidate's dev score is at least
\* the pattern's average - min(5*matched rejection signals, 15) - 10 if the
\* candidate's type is in the rejection list, clamped to 0..100.
C19_AdjustmentFormula ==
    [][(/\ adjusted' # adjusted
        /\ adjusted'.pattern # NoPattern
        /\ adjusted'.pattern.confidence >= TrustThreshold)
          => LET pattern == adjusted'.pattern
                 signals == extract_candidate_signals(
                                CandidateById(candidates, adjusted'.candidate_id))
                 Matched(mine, learned) ==
                     Cardinality(SetOf(mine) \cap SetOf(learned))
                 average == pattern.avg_dev_score
                 sum ==
                     adjusted'.base_score
                     + Min(2 * Matched(signals.skills, pattern.successful_skills), 10)
                     + Min(3 * Matched(signals.signals, pattern.successful_signals), 12)
                     + Min(2 * Matched(signals.languages,
                                       pattern.successful_languages), 6)
                     + (IF /\ signals.dev_score # NoNum
                           /\ average.den # 0
                           /\ signals.dev_score * average.den >= average.num
                        THEN 5 ELSE 0)
                     - Min(5 * Matched(signals.signals, pattern.rejection_patterns), 15)
                     - (IF signals.candidate_type
                              \in SetOf(pattern.rejection_patterns)
                        THEN 10 ELSE 0)
             IN  adjusted'.score = Max(0, Min(100, sum))]_vars

\* ================================================ what the top lists keep
MaxLearned == 3   \* positive actions in the log that is replayed

\* the positive actions a recruiter can have recorded for one job
LearnEntries ==
    {RecruiterAction("j1", c, a) : c \in ProfileIds, a \in {"hire", "shortlist"}}

\* the three profiles stored, a log of positive actions, no pattern yet
LearnInit ==
    /\ ProfilesStored
    /\ \E n \in 0..MaxLearned :
          recruiter_actions \in [1..n -> LearnEntries]
    /\ patterns = [role_type \in RoleTypes |-> NoPattern]
    /\ upd = [u \in Updaters |-> IdleUpd]
    /\ rebuild = IdleRebuild
    /\ ScoringInit

\* rebuild_patterns_from_history over that log
LearnNext ==
    \/ \E order \in RowOrders(Len(recruiter_actions)) : RebuildStart(order)
    \/ RebuildStep
    \/ RebuildDone

LearnSpec == LearnInit /\ [][LearnNext]_vars

\* the signals of the candidates whose positive actions for a role type
\* have been applied so far, one entry per action
Learned(role_type) ==
    LET applied == SubSeq(rebuild.actions, 1, rebuild.i - 1)
        mine == SelectSeq(applied, LAMBDA a : RoleOf(a.job_id) = role_type)
    IN  [k \in DOMAIN mine |->
            extract_candidate_signals(CandidateById(candidates, mine[k].candidate_id))]

Occurrences(list, v) == Cardinality({i \in DOMAIN list : list[i] = v})

RECURSIVE SumOver(_, _)
SumOver(f, S) ==
    IF S = {} THEN 0
    ELSE LET x == CHOOSE x \in S : TRUE IN f[x] + SumOver(f, S \ {x})

\* kept is a top-n list of the values of lists, by their occurrence count
\* summed over all the lists
TopByCumulativeCount(kept, lists, n) ==
    LET values == UNION {SetOf(lists[k]) : k \in DOMAIN lists}
        count == [v \in values |->
                    SumOver([k \in DOMAIN lists |-> Occurrences(lists[k], v)],
                            DOMAIN lists)]
    IN  /\ SetOf(kept) \subseteq values
        /\ Len(kept) = Min(n, Cardinality(values))
        /\ \A i, k \in DOMAIN kept : i < k => kept[i] # kept[k]
        /\ \A v \in SetOf(kept), w \in values \ SetOf(kept) :
              count[v] >= count[w]
        /\ \A i, k \in DOMAIN kept : i < k => count[kept[i]] >= count[kept[k]]

\* C20: while and after positive actions of a role type are applied, the
\* pattern's successful_skills, successful_signals and successful_languages
\* are the 20, 15 and 10 values with the highest occurrence count summed over
\* all candidates learned from, listed from the most to the least frequent.
C20_TopByCumulativeFrequency ==
    rebuild.pc \in {"replaying", "done"} =>
        \A role_type \in RoleTypes :
            LET pattern == patterns[role_type]
                learned == Learned(role_type)
            IN  pattern # NoPattern =>
                  /\ TopByCumulativeCount(pattern.successful_skills,
                         [k \in DOMAIN learned |-> learned[k].skills], TopSkills)
                  /\ TopByCumulativeCount(pattern.successful_signals,
                         [k \in DOMAIN learned |-> learned[k].signals], TopSignals)
                  /\ TopByCumulativeCount(pattern.successful_languages,
                         [k \in DOMAIN learned |-> learned[k].languages],
                         TopLanguages)

\* ================================================== the running averages
\* new = avg + (x - avg) / n in exact arithmetic; the first value of a column
\* that holds none is the value itself
MeanStep(avg, x, n, new) ==
    x # NoNum =>
        IF avg = NoAvg THEN new.den # 0 /\ new.num = x * new.den
        ELSE /\ new.den # 0
             /\ new.num * avg.den * n
                  = (avg.num * n + x * avg.den - avg.num) * new.den

\* C21: each positive action applied for a candidate that carries a dev score
\* (repo count, followers) x moves the stored average to avg + (x - avg)/n,
\* n being hire_count + shortlist_count after the action.
C21_IncrementalMean ==
    [][(rebuild.pc = "replaying" /\ rebuild'.i = rebuild.i + 1) =>
          LET a == rebuild.actions[rebuild.i]
              role_type == RoleOf(a.job_id)
              before == get_or_create_pattern(patterns, role_type)
              after == patterns'[role_type]
              signals == extract_candidate_signals(
                             CandidateById(candidates, a.candidate_id))
              n == after.hire_count + after.shortlist_count
          IN  /\ MeanStep(before.avg_dev_score, signals.dev_score, n,
                          after.avg_dev_score)
              /\ MeanStep(before.avg_repo_count, signals.repo_count, n,
                          after.avg_repo_count)
              /\ MeanStep(before.avg_followers, signals.followers, n,
                          after.avg_followers)]_vars

\* ==================================================== the log over time
\* DELETE /candidates/{candidate_id}: the ORM cascade removes the
\* candidate's links; the rows of recruiter_actions have a foreign key on
\* candidates.id with no cascade, so the DELETE of a candidate with logged
\* actions is refused by the database and the request changes nothing
delete_candidate(candidate_id) ==
    /\ \E c \in candidates : c.id = candidate_id
    /\ \A i \in DOMAIN recruiter_actions :
          recruiter_actions[i].candidate_id # candidate_id
    /\ candidates' = {c \in candidates : c.id # candidate_id}
    /\ job_candidates' =
         [jc \in {x \in BagToSet(job_candidates) :
                     x.candidate_id # candidate_id} |-> job_candidates[jc]]
    /\ match_score' =
         [jc \in {x \in DOMAIN match_score : x.candidate_id # candidate_id} |->
             match_score[jc]]
    /\ evidence' =
         [jc \in {x \in DOMAIN evidence : x.candidate_id # candidate_id} |->
             evidence[jc]]
    /\ UNCHANGED <<jobs, runs, memory, adjusted, quick, task, grok, normalized>>

\* recording actions, deleting jobs and candidates, rebuilding the patterns
LogNext ==
    \/ \E j \in JobIds, c \in ProfileIds, a \in {"hire", "reject"} :
          track_recruiter_action(j, c, a)
    \/ \E j \in JobIds : delete_job(j)
    \/ \E c \in ProfileIds : delete_candidate(c)
    \/ \E order \in RowOrders(Len(recruiter_actions)) : RebuildStart(order)
    \/ RebuildStep
    \/ RebuildDone

LogSpec == ReplayInit /\ [][LogNext]_vars

\* C22: no operation mutates or deletes a RecruiterAction that is in the
\* log: every step leaves every logged action in the log, unchanged.
C22_LogAppendOnly ==
    [][/\ Len(recruiter_actions') >= Len(recruiter_actions)
       /\ \A i \in DOMAIN recruiter_actions :
             recruiter_actions'[i] = recruiter_actions[i]]_vars

\* what a role type's pattern row says; no row says nothing was learned
ConfidenceOf(pattern) == IF pattern = NoPattern THEN 0 ELSE pattern.confidence

\* C24: over time no step lowers the total_actions or the confidence of a
\* role type's pattern, whether it applies an action or rebuilds from the log.
C24_ConfidenceMonotone ==
    [][\A role_type \in RoleTypes :
          /\ TotalActions(patterns'[role_type])
                >= TotalActions(patterns[role_type])
          /\ ConfidenceOf(patterns'[role_type])
                >= ConfidenceOf(patterns[role_type])]_vars

\* ================================================= the ids of a candidate
\* C23: every Candidate row has its x_user_id or its github_id set, and no
\* two rows share an x_user_id or share a github_id.
C23_CandidateIds ==
    \A c \in candidates :
        /\ c.x_user_id # NoId \/ c.github_id # NoId
        /\ \A d \in candidates \ {c} :
              /\ c.x_user_id # NoId => d.x_user_id # c.x_user_id
              /\ c.github_id # NoId => d.github_id # c.github_id

\* rows of both channels are stored and an insert was refused as a duplicate
C23_Witness ==
    /\ \E c, d \in candidates : c.github_id # NoId /\ d.github_id = NoId
    /\ \E r \in Runs : runs[r].pc = "raised" /\ runs[r].error = UniqueViolation

\* ==================================================== role types of titles
MaxNormalized == 2   \* applications of normalize_role_type to one title

\* job titles: a seniority, a speciality, a job name
Seniorities ==
    { <<>>,
      <<"S","e","n","i","o","r"," ">>,
      <<"S","r","."," ">>,
      <<"S","t","a","f","f"," ">>,
      <<"L","e","a","d"," ">> }

Specialities ==
    { <<"i","O","S">>,
      <<"S","w","i","f","t">>,
      <<"K","o","t","l","i","n">>,
      <<"M","L">>,
      <<"D","a","t","a"," ","S","c","i","e","n","t","i","s","t">>,
      <<"G","o","l","a","n","g">>,
      <<"I","n","f","r","a","s","t","r","u","c","t","u","r","e">>,
      <<"P","l","a","t","f","o","r","m">>,
      <<"R","e","a","c","t">>,
      <<"Q","A">>,
      <<"P","r","o","d","u","c","t">>,
      <<>> }

JobNames ==
    { <<>>,
      <<" ","E","n","g","i","n","e","e","r">>,
      <<" ","D","e","v","e","l","o","p","e","r">> }

Titles == {a \o b \o c : a \in Seniorities, b \in Specialities, c \in JobNames}

NormalizeInit ==
    /\ ProfilesStored
    /\ MemoryInit
    /\ match_score = <<>> /\ evidence = <<>> /\ adjusted = NoCall
    /\ quick = NoQuick /\ task = IdleTask /\ grok = NoAnswer
    /\ \E t \in Titles : normalized = [applied |-> 0, title |-> t, role_type |-> <<>>]

\* role_type = normalize_role_type(job.title), and normalize_role_type of
\* what it returned
Normalize ==
    /\ normalized.applied < MaxNormalized
    /\ normalized' =
         [normalized EXCEPT
            !.applied = normalized.applied + 1,
            !.role_type =
                normalize_role_type(IF normalized.applied = 0
                                    THEN normalized.title
                                    ELSE normalized.role_type)]
    /\ UNCHANGED <<jobs, candidates, job_candidates, runs, memory, match_score,
                   evidence, adjusted, quick, task, grok>>

NormalizeSpec == NormalizeInit /\ [][Normalize]_vars

\* C25: normalize_role_type applied to a role type it returned returns that
\* role type again, for titles that hit the mapping table and for titles that
\* fall through to the slug.
C25_NormalizeIdempotent ==
    [][normalized.applied >= 1 =>
          normalized'.role_type = normalized.role_type]_vars

\* ============================================ the follow-up enrichment pass
\* C26: a run that completes has queued the enrichment pass once if it has
\* associated a candidate with the job and not at all if it has associated
\* none; a run that has not completed has not queued it.
C26_EnrichmentOnceIfAssociated ==
    \A r \in Runs :
        /\ (runs[r].pc = "returned" /\ runs[r].error = "") =>
              runs[r].enriched = (IF runs[r].linked > 0 THEN 1 ELSE 0)
        /\ runs[r].pc # "returned" => runs[r].enriched = 0

C28_ReasonPerAdjustment ==
    adjusted # NoCall =>
        LET reasons == adjusted.adjustments IN
        /\ \A i, k \in DOMAIN reasons :
              i # k => reasons[i].reason # reasons[k].reason
        /\ \A i \in DOMAIN reasons : reasons[i].delta # 0
        /\ adjusted.score =
              Max(0, Min(100, adjusted.base_score + SumDeltas(reasons)))
        /\ reasons = <<>> => adjusted.score = adjusted.base_score
        /\ (adjusted.pattern = NoPattern
              \/ adjusted.pattern.confidence < TrustThreshold)
              => reasons = <<>>

\* a boost and a penalty were applied together, each with its reason
C28_Witness ==
    /\ adjusted # NoCall
    /\ Len(adjusted.adjustments) >= 2
    /\ \E i, k \in DOMAIN adjusted.adjustments :
          /\ adjusted.adjustments[i].delta > 0
          /\ adjusted.adjustments[k].delta < 0
    /\ adjusted.score # adjusted.base_score

\* ================================================== the range of a score
\* C29: every JobCandidate.match_score that is set lies in 0..100, after any
\* scoring passes, with or without a trusted pattern, whatever Grok answers.
C29_MatchScoreInRange ==
    \A jc \in DOMAIN match_score :
        match_score[jc] >= 0 /\ match_score[jc] <= 100

\* Grok answered a number above 100 and the link of a job with a trusted
\* pattern holds the score 100
C29_Witness ==
    /\ grok # NoAnswer
    /\ ToNumber(FirstDigitRun(grok.response)) > 100
    /\ JobCandidate(grok.job_id, grok.candidate_id) \in DOMAIN match_score
    /\ match_score[JobCandidate(grok.job_id, grok.candidate_id)] = 100
    /\ LearnedPattern(grok.job_id) # NoPattern

\* ======================================================= cancelling a run
\* a client asks the broker to cancel the task that is in flight; no line of
\* the tasks reads the request
revoke ==
    /\ task.pc \notin {"idle", "returned", "raised"}
    /\ ~task.revoked
    /\ task' = [task EXCEPT !.revoked = TRUE]
    /\ TaskUnchanged

CancelNext == AdmissionNext \/ revoke

CancelSpec == Init /\ [][CancelNext]_vars

\* C30: once cancellation is requested, a run at the top of its loop takes
\* no further raw profile: it ends, or stays where it is.
C30_CooperativeCancel ==
    [][(task.revoked /\ task.pc = "loop") =>
          \/ task'.queue = task.queue
          \/ task'.pc \in {"returned", "raised"}]_vars

\* ============================================ linking a GitHub profile
\* a GitHub account whose login is part of another account's login
ShortLogin ==
    [login |-> <<"b">>, github_id |-> "3", twitter_username |-> NoId]

\* the accounts search_developers can return
SearchedGitHubUsers == GitHubUsers \cup {ShortLogin}

IdentityRunStep(r) ==
    /\ \/ \E k \in Kinds, j \in JobIds, n \in 1..MaxItems : SeqStartRun(r, k, j, n)
       \/ Finish(r)
       \/ \E u \in XUsers, pass \in BOOLEAN, admit \in BOOLEAN : PickX(r, u, pass, admit)
       \/ Dedupe(r)
       \/ Link(r)
       \/ InsertX(r)
       \/ \E g \in SearchedGitHubUsers, admit \in BOOLEAN, x_found \in BOOLEAN :
             PickGh(r, g, admit, x_found)
       \/ GhLookup2(r)
       \/ InsertGh(r)
    /\ UNCHANGED <<memory, scoring>>

IdentityNext == \E r \in Runs : IdentityRunStep(r)

IdentitySpec == Init /\ [][IdentityNext]_vars

\* the row stands for the person behind GitHub account gh, whose X account
\* (if the profile names one that exists) is user
SameIdentity(c, gh, user) ==
    \/ c.github_id = gh.github_id
    \/ c.github_username = gh.login
    \/ _extract_github_username(c.github_url) = gh.login
    \/ (user.id # NoId /\ c.x_user_id = user.id)
    \/ (gh.twitter_username # NoId /\ c.x_username = gh.twitter_username)

\* C31: whenever the GitHub path links a stored Candidate to the run's job,
\* that Candidate is the same identity as the GitHub profile at hand (same
\* GitHub id, same login, or the X account the profile names).
C31_LinkOnlySameIdentity ==
    [][\A r \in Runs :
         (/\ runs[r].pc = "link"
          /\ runs[r].kind = "github"
          /\ runs'[r].linked = runs[r].linked + 1)
         => \A c \in candidates :
               c.id = runs[r].existing => SameIdentity(c, runs[r].gh, runs[r].user)]_vars

\* ================================================== the last progress record
\* the acquisition strategies of the job-run pipeline
Strategies == {"user_search", "tweet_search", "github"}

\* C32: a run of any acquisition strategy that returned a result without an
\* error has reported the stage complete (progress 100) as its last record.
C32_CompleteBeforeSuccess ==
    (/\ task.pc = "returned"
     /\ task.kind \in Strategies
     /\ task.result.error = "")
    => (task.stages # <<>> /\ LastStage(task) = "complete")

\* ================================================ the averages as means
\* avg is the arithmetic mean of the values of the sequence that are present
\* (no value present: the column holds none)
MeanOfPresent(avg, values) ==
    LET present == {k \in DOMAIN values : values[k] # NoNum}
        sum == SumOver(values, present)
    IN  IF present = {} THEN avg = NoAvg
        ELSE avg.den # 0 /\ avg.num * Cardinality(present) = sum * avg.den

\* C33: while and after positive actions of a role type are applied,
\* avg_dev_score (avg_repo_count, avg_followers) is the arithmetic mean of
\* the dev scores (repo counts, followers) of exactly those learned
\* candidates that carried the value.
C33_AverageIsMean ==
    rebuild.pc \in {"replaying", "done"} =>
        \A role_type \in RoleTypes :
            LET pattern == patterns[role_type]
                learned == Learned(role_type)
            IN  pattern # NoPattern =>
                  /\ MeanOfPresent(pattern.avg_dev_score,
                         [k \in DOMAIN learned |-> learned[k].dev_score])
                  /\ MeanOfPresent(pattern.avg_repo_count,
                         [k \in DOMAIN learned |-> learned[k].repo_count])
                  /\ MeanOfPresent(pattern.avg_followers,
                         [k \in DOMAIN learned |-> learned[k].followers])

\* ================================================== counters and the total
\* the actions a pattern has counted by kind
CountedByKind(pattern) ==
    pattern.hire_count + pattern.shortlist_count + pattern.reject_count

\* an action that is neither positive nor a rejection
OtherKind(action) == action \notin {"hire", "shortlist", "contact", "reject"}

\* C34: the counters by kind of a pattern never add up to more than its
\* total_actions, and a call of update_pattern_from_action for an action of
\* another kind (view) changes total_actions and confidence only.
C34_CountersWithinTotal ==
    /\ [](\A role_type \in RoleTypes :
            patterns[role_type] # NoPattern =>
                CountedByKind(patterns[role_type])
                    <= patterns[role_type].total_actions)
    /\ [][\A u \in Updaters :
            (upd[u].pc = "loaded" /\ upd'[u].pc = "done"
                /\ OtherKind(upd[u].action)) =>
              LET role_type == RoleOf(upd[u].job_id)
                  before == get_or_create_pattern(patterns, role_type)
                  after == patterns'[role_type]
              IN  after # NoPattern =>
                    [after EXCEPT !.total_actions = before.total_actions,
                                  !.confidence = before.confidence] = before]_vars

\* ======================================================= the learned lists
\* a list of at most n entries, none of them twice
BoundedSet(list, n) ==
    /\ Len(list) <= n
    /\ \A i, k \in DOMAIN list : i # k => list[i] # list[k]

\* C35: in every state the lists of a pattern are duplicate-free and hold at
\* most 20 skills, 15 signals, 10 languages, 10 rejection patterns and 3
\* preferred candidate types.
C35_ListsBounded ==
    \A role_type \in RoleTypes :
        LET pattern == patterns[role_type]
        IN  pattern # NoPattern =>
              /\ BoundedSet(pattern.successful_skills, TopSkills)
              /\ BoundedSet(pattern.successful_signals, TopSignals)
              /\ BoundedSet(pattern.successful_languages, TopLanguages)
              /\ BoundedSet(pattern.rejection_patterns, TopRejections)
              /\ BoundedSet(pattern.preferred_candidate_types, TopTypes)

\* a pattern that has learned from two candidates with 21 distinct skills
\* and 11 distinct languages between them: both lists are full
C35_Witness ==
    \E role_type \in RoleTypes :
        /\ patterns[role_type] # NoPattern
        /\ patterns[role_type].shortlist_count + patterns[role_type].hire_count = 2
        /\ Len(patterns[role_type].successful_skills) = TopSkills
        /\ Len(patterns[role_type].successful_languages) = TopLanguages

\* ===================================================== the limit of a run
\* a task called with any max_results up to MaxResults
LimitNext ==
    \/ \E kind \in TaskKinds, j \in JobIds, exclude_influencers \in BOOLEAN,
          skip_classification \in BOOLEAN,
          usernames \in Queues({u.id : u \in XUsers}),
          max_results \in 1..MaxResults :
          TaskStart(kind, j, exclude_influencers, skip_classification, usernames,
                    max_results)
    \/ TaskRun

LimitSpec == Init /\ [][LimitNext]_vars

\* C36: a run of any acquisition strategy has added, and reports as added,
\* at most max_results candidates, and the rows of table candidates it has
\* created (the table starts empty) are at most max_results.
C36_AtMostMaxResults ==
    task.kind \in Strategies =>
        /\ task.added <= task.max_results
        /\ Cardinality(candidates) <= task.max_results
        /\ (task.pc = "returned" /\ "candidates_added" \in DOMAIN task.result)
              => task.result.candidates_added <= task.max_results

\* the loop has ended at max_results with a raw profile still in the list
C36_Witness ==
    /\ task.kind \in Strategies
    /\ task.pc = "enrich"
    /\ task.queue # <<>>
    /\ task.added = task.max_results
    /\ Cardinality(candidates) = task.max_results

\* ================================================ the percent of a run
\* C37: the percent values a run reports one after the other never fall and
\* lie within 0..100.
C37_ProgressMonotone ==
    \A i \in DOMAIN task.progress :
        /\ 0 <= task.progress[i] /\ task.progress[i] <= 100
        /\ i > 1 => task.progress[i - 1] <= task.progress[i]

\* a tweet search that went through more than one query and reported
\* complete
C37_Witness ==
    /\ task.pc = "returned"
    /\ task.kind = "tweet_search"
    /\ task.query_idx >= 1
    /\ task.progress[Len(task.progress)] = CompleteProgress
    /\ \E i \in DOMAIN task.progress :
          task.progress[i] > QueryBase /\ task.progress[i] < EnrichingProgress

\* ================================================= who owns the links
\* sourcing runs one after the other, links added by hand, jobs and
\* candidates deleted at any moment
OwnershipNext ==
    \/ SeqNext
    \/ \E j \in JobIds, c \in candidates : add_candidate_to_job(j, c.id)
    \/ \E c \in candidates : delete_candidate(c.id)

OwnershipSpec == Init /\ [][OwnershipNext]_vars

\* every link references a stored job and a stored candidate
LinksReferenceRows ==
    \A jc \in BagToSet(job_candidates) :
        /\ jc.job_id \in jobs
        /\ \E c \in candidates : c.id = jc.candidate_id

\* C38: a step that deletes a job removes all links of that job and leaves
\* the candidates and the links of every other job as they were; and in
\* every state each link references an existing job and an existing
\* candidate.
C38_DeleteJobFrame ==
    /\ [](LinksReferenceRows)
    /\ [][\A job_id \in JobIds :
            (job_id \in jobs /\ job_id \notin jobs') =>
               /\ candidates' = candidates
               /\ \A jc \in BagToSet(job_candidates') : jc.job_id # job_id
               /\ \A jc \in BagToSet(job_candidates) :
                     jc.job_id # job_id =>
                        CopiesIn(jc, job_candidates') = CopiesIn(jc, job_candidates)
               /\ \A jc \in BagToSet(job_candidates') : BagIn(jc, job_candidates)]_vars

\* job j1 is gone after two links were made; the candidate is still stored
\* and linked to j2 only
C38_Witness ==
    /\ jobs = {"j2"}
    /\ \E r, q \in Runs : r # q /\ runs[r].linked = 1 /\ runs[q].linked = 1
    /\ Cardinality(candidates) = 1
    /\ BagCardinality(job_candidates) = 1
    /\ \E c \in candidates : Linked("j2", c.id)

====
